---- MODULE Spec2Model ----
(***************************************************************************)
(* Model of the Antigravity quota aggregation handler                      *)
(* (internal/api/handlers/management/antigravity_quota.go).                *)
(*                                                                         *)
(* Strings that the code only inspects with strings.Contains are modelled  *)
(* as sequences of words; fmt.Errorf("forbidden: %s", body) is the         *)
(* sequence <<"forbidden">> \o body and strings.Contains(s, w) is          *)
(* membership of the word w in s.                                          *)
(***************************************************************************)
EXTENDS Integers, Sequences, FiniteSets, TLC

\* ------------------------------------------------------------------ bounds
\* Largest number of credential records in the store (Spec).
MaxAccounts == 2
\* Largest number of credential records in the store (FairSpec).
MaxFairAccounts == 1
\* Number of leading models of modelsToCheck whose generation responses may
\* carry rate-limit headers; later models answer without them.
MaxHeaderModels == 2

\* --------------------------------------------------------------- constants
\* responsePreview is cut after this many characters (one word counts as one).
PreviewLimit == 500

\* ------------------------------------------------------------ small helpers
Contains(s, w) == \E i \in 1..Len(s) : s[i] = w

NoError == <<>>

NoQuota == [Status |-> "", ModelQuotas |-> <<>>, Error |-> <<>>, Email |-> ""]

\* A remaining percentage computed with integer division.
PercentTruncated(remaining, limit) == [num |-> (remaining \div limit) * 100, den |-> 1]

\* A remaining percentage remaining/limit * 100, kept as an exact ratio.
Percent(remaining, limit) == [num |-> remaining * 100, den |-> limit]

\* ------------------------------------------------------ display-name lookup
getDisplayName(modelName) ==
  CASE modelName = "gemini-2.5-pro" -> "Gemini 2.5 Pro"
    [] modelName = "gemini-2.5-flash" -> "Gemini 2.5 Flash"
    [] modelName = "gemini-2.0-flash" -> "Gemini 2.0 Flash"
    [] modelName = "gemini-2.0-flash-lite" -> "Gemini 2.0 Flash Lite"
    [] modelName = "gemini-2.0-flash-exp" -> "Gemini 2.0 Flash Exp"
    [] modelName = "gemini-exp-1206" -> "Gemini Exp"
    [] modelName \in {"gemini-claude-sonnet-4-5", "gemini-claude-sonnet-4-5-thinking"}
         -> "Claude Sonnet 4.5"
    [] modelName \in {"gemini-claude-opus-4-5", "gemini-claude-opus-4-5-thinking"}
         -> "Claude Opus 4.5"
    [] modelName = "imagen-3.0-generate-002" -> "Imagen 3"
    [] OTHER -> modelName

\* A probe switch that does not know the "-thinking" identifiers.
probeDisplayNameBaseOnly(modelName) ==
  CASE modelName = "gemini-2.5-pro" -> "Gemini 2.5 Pro"
    [] modelName = "gemini-2.5-flash" -> "Gemini 2.5 Flash"
    [] modelName = "gemini-2.0-flash" -> "Gemini 2.0 Flash"
    [] modelName = "gemini-2.0-flash-lite" -> "Gemini 2.0 Flash Lite"
    [] modelName = "gemini-2.0-flash-exp" -> "Gemini 2.0 Flash Exp"
    [] modelName = "gemini-exp-1206" -> "Gemini Exp"
    [] modelName = "gemini-claude-sonnet-4-5" -> "Claude Sonnet 4.5"
    [] modelName = "gemini-claude-opus-4-5" -> "Claude Opus 4.5"
    [] modelName = "imagen-3.0-generate-002" -> "Imagen 3"
    [] OTHER -> modelName

\* The display-name switch inlined in extractQuotaForModel.
probeDisplayName(modelName) ==
  CASE modelName = "gemini-2.5-pro" -> "Gemini 2.5 Pro"
    [] modelName = "gemini-2.5-flash" -> "Gemini 2.5 Flash"
    [] modelName = "gemini-2.0-flash" -> "Gemini 2.0 Flash"
    [] modelName = "gemini-2.0-flash-lite" -> "Gemini 2.0 Flash Lite"
    [] modelName = "gemini-2.0-flash-exp" -> "Gemini 2.0 Flash Exp"
    [] modelName = "gemini-exp-1206" -> "Gemini Exp"
    [] modelName \in {"gemini-claude-sonnet-4-5", "gemini-claude-sonnet-4-5-thinking"}
         -> "Claude Sonnet 4.5"
    [] modelName \in {"gemini-claude-opus-4-5", "gemini-claude-opus-4-5-thinking"}
         -> "Claude Opus 4.5"
    [] modelName = "imagen-3.0-generate-002" -> "Imagen 3"
    [] OTHER -> modelName

\* ----------------------------------------------------- the primary endpoint
endpoints ==
  << "https://daily-cloudcode-pa.googleapis.com/v1internal:fetchAvailableModels",
     "https://daily-cloudcode-pa.sandbox.googleapis.com/v1internal:fetchAvailableModels",
     "https://cloudcode-pa.googleapis.com/v1internal:fetchAvailableModels" >>

\* buildQuotasFromArray: one Model Quota per entry with a non-zero rpmLimit.
RECURSIVE arrayQuotas(_)
arrayQuotas(models) ==
  IF models = <<>> THEN <<>>
  ELSE LET model == Head(models)
           rest  == arrayQuotas(Tail(models))
       IN  IF model.RpmLimit = 0 THEN rest
           ELSE << [Model |-> model.Model,
                    DisplayName |-> getDisplayName(model.Model),
                    RemainingPercent |-> Percent(model.RemainingRpm, model.RpmLimit),
                    ResetTime |-> model.ResetTimeStamp] >> \o rest

\* buildQuotasFromArray leaving Status unset.
buildQuotasFromArrayUnset(email, models) ==
  [Status |-> "", ModelQuotas |-> arrayQuotas(models), Error |-> <<>>,
   Email |-> email]

buildQuotasFromArray(email, models) ==
  [Status |-> "active", ModelQuotas |-> arrayQuotas(models), Error |-> <<>>,
   Email |-> email]

\* buildQuotasFromMap: models are visited in the runtime's map iteration
\* order, which is the order of the sequence handed in.
RECURSIVE mapQuotas(_)
mapQuotas(models) ==
  IF models = <<>> THEN <<>>
  ELSE LET model == Head(models)
           rest  == mapQuotas(Tail(models))
       IN  IF ~model.HasFraction THEN rest
           ELSE << [Model |-> model.Model,
                    DisplayName |-> getDisplayName(model.Model),
                    RemainingPercent |->
                      [num |-> model.FractionNum * 100, den |-> model.FractionDen],
                    ResetTime |-> model.ResetTime] >> \o rest

buildQuotasFromMap(email, models) ==
  [Status |-> "active", ModelQuotas |-> mapQuotas(models), Error |-> <<>>,
   Email |-> email]

\* json.Unmarshal of a body into the array-format and the map-format struct.
\* A body is [shape, models, raw]: shape "text" is not JSON, "none" is a JSON
\* object without a models key, "array" and "map" carry models in that form.
unmarshalArray(body) ==
  CASE body.shape = "text"  -> [ok |-> FALSE, Models |-> <<>>]
    [] body.shape = "none"  -> [ok |-> TRUE,  Models |-> <<>>]
    [] body.shape = "array" -> [ok |-> TRUE,  Models |-> body.models]
    [] body.shape = "map"   -> [ok |-> FALSE, Models |-> <<>>]

unmarshalMap(body) ==
  CASE body.shape = "text"  -> [ok |-> FALSE, Models |-> <<>>]
    [] body.shape = "none"  -> [ok |-> TRUE,  Models |-> <<>>]
    [] body.shape = "array" -> [ok |-> FALSE, Models |-> <<>>]
    [] body.shape = "map"   -> [ok |-> TRUE,  Models |-> body.models]

responsePreview(raw) ==
  IF Len(raw) > PreviewLimit THEN SubSeq(raw, 1, PreviewLimit) \o <<"...">> ELSE raw

\* callQuotaEndpoint taking every body that decodes, models or none.
callQuotaEndpointAnyDecoded(resp, email) ==
  IF resp.failed = "do" THEN
    [quota |-> NoQuota, err |-> <<"execute request">> \o resp.neterr]
  ELSE IF resp.failed = "read" THEN
    [quota |-> NoQuota, err |-> <<"read response">> \o resp.neterr]
  ELSE IF resp.status = 401 THEN
    [quota |-> NoQuota, err |-> <<"unauthorized", "access token expired">>]
  ELSE IF resp.status = 403 THEN
    [quota |-> NoQuota, err |-> <<"forbidden">> \o resp.body.raw]
  ELSE IF resp.status = 404 THEN
    [quota |-> NoQuota, err |-> <<"404", "endpoint not found">>]
  ELSE IF resp.status # 200 THEN
    [quota |-> NoQuota,
     err |-> <<"API returned", ToString(resp.status)>> \o resp.body.raw]
  ELSE
    LET apiRespArray == unmarshalArray(resp.body)
        apiRespMap   == unmarshalMap(resp.body)
    IN  IF apiRespArray.ok THEN
          [quota |-> buildQuotasFromArray(email, apiRespArray.Models), err |-> NoError]
        ELSE IF apiRespMap.ok THEN
          [quota |-> buildQuotasFromMap(email, apiRespMap.Models), err |-> NoError]
        ELSE
          [quota |-> NoQuota,
           err |-> <<"parse response">> \o responsePreview(resp.body.raw)]

\* callQuotaEndpoint: classify one response of a candidate endpoint.
\* resp is [failed, neterr, status, body]; failed is "do" when httpClient.Do
\* fails, "read" when reading the body fails (neterr is the error text), and
\* "no" when the client got a whole response.
callQuotaEndpoint(resp, email) ==
  IF resp.failed = "do" THEN
    [quota |-> NoQuota, err |-> <<"execute request">> \o resp.neterr]
  ELSE IF resp.failed = "read" THEN
    [quota |-> NoQuota, err |-> <<"read response">> \o resp.neterr]
  ELSE IF resp.status = 401 THEN
    [quota |-> NoQuota, err |-> <<"unauthorized", "access token expired">>]
  ELSE IF resp.status = 403 THEN
    [quota |-> NoQuota, err |-> <<"forbidden">> \o resp.body.raw]
  ELSE IF resp.status = 404 THEN
    [quota |-> NoQuota, err |-> <<"404", "endpoint not found">>]
  ELSE IF resp.status # 200 THEN
    [quota |-> NoQuota,
     err |-> <<"API returned", ToString(resp.status)>> \o resp.body.raw]
  ELSE
    LET apiRespArray == unmarshalArray(resp.body)
        apiRespMap   == unmarshalMap(resp.body)
    IN  IF apiRespArray.ok /\ Len(apiRespArray.Models) > 0 THEN
          [quota |-> buildQuotasFromArray(email, apiRespArray.Models), err |-> NoError]
        ELSE IF apiRespMap.ok /\ Len(apiRespMap.Models) > 0 THEN
          [quota |-> buildQuotasFromMap(email, apiRespMap.Models), err |-> NoError]
        ELSE
          [quota |-> NoQuota,
           err |-> <<"parse response">> \o responsePreview(resp.body.raw)]

\* The endpoint loop without its check for an unauthorized answer.
afterEndpointErrorNo401(err) ==
  IF Contains(err, "forbidden") \/ Contains(err, "banned") THEN "fallback"
  ELSE IF ~Contains(err, "404") THEN "break"
  ELSE "continue"

\* The endpoint loop leaving on a 404 instead of going on.
afterEndpointErrorStop404(err) ==
  IF Contains(err, "unauthorized") \/ Contains(err, "access token expired") THEN "inactive"
  ELSE IF Contains(err, "forbidden") \/ Contains(err, "banned") THEN "fallback"
  ELSE "break"

\* What the endpoint loop of fetchQuotaForAccount does with a failed call:
\* "inactive" returns the re-login result, "fallback" runs the header probe,
\* "break" leaves the loop, "continue" goes on to the next candidate.
afterEndpointError(err) ==
  IF Contains(err, "unauthorized") \/ Contains(err, "access token expired") THEN "inactive"
  ELSE IF Contains(err, "forbidden") \/ Contains(err, "banned") THEN "fallback"
  ELSE IF ~Contains(err, "404") THEN "break"
  ELSE "continue"

\* ------------------------------------------------------- the header probe
modelsToCheck ==
  << "gemini-2.5-pro", "gemini-2.5-flash", "gemini-2.0-flash",
     "gemini-2.0-flash-lite", "gemini-exp-1206", "gemini-claude-sonnet-4-5",
     "gemini-claude-opus-4-5", "imagen-3.0-generate-002" >>

\* fmt.Sscanf(header, "%d", &n) on the header values the model uses.
scanInt(header) ==
  CASE header = "0"   -> [ok |-> TRUE, n |-> 0]
    [] header = "25"  -> [ok |-> TRUE, n |-> 25]
    [] header = "100" -> [ok |-> TRUE, n |-> 100]
    [] header = "150" -> [ok |-> TRUE, n |-> 150]
    [] header = "-5"  -> [ok |-> TRUE, n |-> 0 - 5]
    [] OTHER          -> [ok |-> FALSE, n |-> 0]

\* extractQuotaForModel without its check that the remaining count parses.
extractQuotaForModelAnyRemaining(resp, modelName) ==
  LET none == [Model |-> "", DisplayName |-> "", RemainingPercent |-> Percent(0, 1),
               ResetTime |-> ""]
      limit     == scanInt(resp.Limit)
      remaining == scanInt(resp.Remaining)
  IN  IF resp.failed THEN
        [quota |-> none, some |-> FALSE, err |-> <<"execute request">>]
      ELSE IF resp.Limit = "" \/ resp.Remaining = "" THEN
        [quota |-> none, some |-> FALSE, err |-> NoError]
      ELSE IF ~limit.ok \/ limit.n = 0 THEN
        [quota |-> none, some |-> FALSE, err |-> NoError]
      ELSE
        [quota |-> [Model |-> modelName,
                    DisplayName |-> probeDisplayName(modelName),
                    RemainingPercent |-> Percent(remaining.n, limit.n),
                    ResetTime |-> resp.Reset],
         some |-> TRUE, err |-> NoError]

\* extractQuotaForModel: resp is [failed, Limit, Remaining, Reset]; the result
\* is [quota, some, err]: some is FALSE for the nil *ModelQuota.
extractQuotaForModel(resp, modelName) ==
  LET none == [Model |-> "", DisplayName |-> "", RemainingPercent |-> Percent(0, 1),
               ResetTime |-> ""]
      limit     == scanInt(resp.Limit)
      remaining == scanInt(resp.Remaining)
  IN  IF resp.failed THEN
        [quota |-> none, some |-> FALSE, err |-> <<"execute request">>]
      ELSE IF resp.Limit = "" \/ resp.Remaining = "" THEN
        [quota |-> none, some |-> FALSE, err |-> NoError]
      ELSE IF ~limit.ok \/ limit.n = 0 THEN
        [quota |-> none, some |-> FALSE, err |-> NoError]
      ELSE IF ~remaining.ok THEN
        [quota |-> none, some |-> FALSE, err |-> NoError]
      ELSE
        [quota |-> [Model |-> modelName,
                    DisplayName |-> probeDisplayName(modelName),
                    RemainingPercent |-> Percent(remaining.n, limit.n),
                    ResetTime |-> resp.Reset],
         some |-> TRUE, err |-> NoError]

\* The loop of fetchQuotaFromHeaders over models i..Len(modelsToCheck);
\* resps[i] is the response to the generation call for modelsToCheck[i].
\* called lists the models a generation call was issued for, in call order.
RECURSIVE probeLoop(_, _)
probeLoop(resps, i) ==
  IF i > Len(modelsToCheck) THEN [quotas |-> <<>>, called |-> <<>>]
  ELSE LET r    == extractQuotaForModel(resps[i], modelsToCheck[i])
           rest == probeLoop(resps, i + 1)
           hit  == IF r.err # NoError THEN <<>>
                   ELSE IF r.some THEN <<r.quota>>
                   ELSE <<>>
       IN  [quotas |-> hit \o rest.quotas,
            called |-> <<modelsToCheck[i]>> \o rest.called]

\* fetchQuotaFromHeaders without its check for an empty result.
fetchQuotaFromHeadersNoCheck(resps) ==
  LET loop == probeLoop(resps, 1)
  IN  [quotas |-> loop.quotas, called |-> loop.called, err |-> NoError]

\* fetchQuotaFromHeaders failing unless every model gave data.
fetchQuotaFromHeadersAll(resps) ==
  LET loop == probeLoop(resps, 1)
  IN  IF Len(loop.quotas) < Len(modelsToCheck)
      THEN [quotas |-> <<>>, called |-> loop.called,
            err |-> <<"no quota information extracted from headers">>]
      ELSE [quotas |-> loop.quotas, called |-> loop.called, err |-> NoError]

fetchQuotaFromHeaders(resps) ==
  LET loop == probeLoop(resps, 1)
  IN  IF Len(loop.quotas) = 0
      THEN [quotas |-> <<>>, called |-> loop.called,
            err |-> <<"no quota information extracted from headers">>]
      ELSE [quotas |-> loop.quotas, called |-> loop.called, err |-> NoError]

\* fetchQuotaForAccount as a function of what upstream answers: quotaResps[k]
\* is the answer of endpoints[k] and probeResps[i] the answer to the probe of
\* modelsToCheck[i]; only the answers of the calls that are made are read.
RECURSIVE endpointLoop(_, _, _, _)
endpointLoop(email, quotaResps, probeResps, k) ==
  IF k > Len(quotaResps) THEN NoQuota
  ELSE LET r    == callQuotaEndpoint(quotaResps[k], email)
           next == afterEndpointError(r.err)
           fallback == fetchQuotaFromHeaders(probeResps)
       IN  IF r.err = NoError THEN r.quota
           ELSE IF next = "inactive" THEN
             [Status |-> "inactive", ModelQuotas |-> <<>>, Email |-> email,
              Error |-> <<"Access token expired. Please re-login: CLIProxyAPI -antigravity-login">>]
           ELSE IF next = "fallback" THEN
             IF fallback.err = NoError
             THEN [Status |-> "active", ModelQuotas |-> fallback.quotas,
                   Email |-> email, Error |-> <<>>]
             ELSE [Status |-> "inactive", ModelQuotas |-> <<>>, Email |-> email,
                   Error |-> <<"Access forbidden and fallback failed">> \o fallback.err]
           ELSE IF next = "continue" /\ k < Len(endpoints) THEN
             endpointLoop(email, quotaResps, probeResps, k + 1)
           ELSE
             [Status |-> "error", ModelQuotas |-> <<>>, Email |-> email,
              Error |-> r.err]

fetchQuotaForAccount(email, quotaResps, probeResps) ==
  endpointLoop(email, quotaResps, probeResps, 1)

\* ------------------------------------------------------ credential records
\* The timestamp strings of the model: instant t is written ToString(t).
TimeHorizon == 30

formatRFC3339(t) == ToString(t)

\* The latest instant at which a request is served.
MaxClock == 16

parseRFC3339(str) ==
  IF \E t \in 0..TimeHorizon : ToString(t) = str
  THEN [ok |-> TRUE, t |-> CHOOSE t \in 0..TimeHorizon : ToString(t) = str]
  ELSE [ok |-> FALSE, t |-> 0]

\* auth.Metadata[key].(string), "" when the key is absent (a nil map has none).
metaString(auth, key) ==
  IF key \in DOMAIN auth.Metadata THEN auth.Metadata[key] ELSE ""

\* A provider check that looks at the Provider field only.
isAntigravityByProvider(auth) == auth.Provider = "antigravity"

isAntigravity(auth) ==
  auth.Provider = "antigravity" \/ metaString(auth, "type") = "antigravity"

\* An expiry check that takes a marker it cannot parse for a past one.
isExpiredOnBadMarker(auth, clock) ==
  LET expiredStr  == metaString(auth, "expired")
      expiredTime == parseRFC3339(expiredStr)
  IN  IF expiredStr # ""
      THEN IF ~expiredTime.ok THEN TRUE ELSE clock > expiredTime.t
      ELSE FALSE

\* An expiry check that takes a marker equal to the clock for a past one.
isExpiredAtMarker(auth, clock) ==
  LET expiredStr  == metaString(auth, "expired")
      expiredTime == parseRFC3339(expiredStr)
  IN  IF expiredStr # ""
      THEN IF ~expiredTime.ok THEN FALSE ELSE clock >= expiredTime.t
      ELSE FALSE

isExpired(auth, clock) ==
  LET expiredStr  == metaString(auth, "expired")
      expiredTime == parseRFC3339(expiredStr)
  IN  IF expiredStr # ""
      THEN IF ~expiredTime.ok THEN FALSE ELSE clock > expiredTime.t
      ELSE FALSE

\* The filter loop of GetAntigravityQuota over the records of List().
RECURSIVE selectAuths(_, _)
selectAuths(allAuths, clock) ==
  IF allAuths = <<>> THEN <<>>
  ELSE LET auth == Head(allAuths)
           rest == selectAuths(Tail(allAuths), clock)
       IN  IF ~isAntigravity(auth) THEN rest
           ELSE IF metaString(auth, "access_token") = "" THEN rest
           ELSE << [email        |-> metaString(auth, "email"),
                    projectID    |-> metaString(auth, "project_id"),
                    accessToken  |-> metaString(auth, "access_token"),
                    refreshToken |-> metaString(auth, "refresh_token"),
                    authID       |-> auth.ID,
                    expired      |-> isExpired(auth, clock)] >> \o rest

\* The statistics loop and the response of GetAntigravityQuota.
countStatus(accs, status) ==
  Cardinality({i \in 1..Len(accs) : accs[i].Status = status})

\* A handler that answers 500 when an account ended in an error.
buildResponseFailing(accs) ==
  [code |-> IF countStatus(accs, "error") > 0 THEN 500 ELSE 200,
   TotalAccounts    |-> Len(accs),
   ActiveAccounts   |-> countStatus(accs, "active"),
   InactiveAccounts |-> countStatus(accs, "inactive"),
   ErrorAccounts    |-> countStatus(accs, "error"),
   Accounts         |-> accs]

buildResponse(accs) ==
  [code |-> 200,
   TotalAccounts    |-> Len(accs),
   ActiveAccounts   |-> countStatus(accs, "active"),
   InactiveAccounts |-> countStatus(accs, "inactive"),
   ErrorAccounts    |-> countStatus(accs, "error"),
   Accounts         |-> accs]

\* refreshAccessToken taking whatever the answer holds, without a check.
refreshAccessTokenUnchecked(resp) ==
  [token |-> resp.AccessToken, expiresIn |-> resp.ExpiresIn, err |-> NoError]

\* refreshAccessToken: resp is [failed, status, body, decoded, AccessToken,
\* ExpiresIn]; the result is [token, expiresIn, err].
refreshAccessToken(resp) ==
  IF resp.failed THEN
    [token |-> "", expiresIn |-> 0, err |-> <<"execute refresh request", "timeout">>]
  ELSE IF resp.status # 200 THEN
    [token |-> "", expiresIn |-> 0,
     err |-> <<"refresh token failed", "status", ToString(resp.status)>> \o resp.body]
  ELSE IF ~resp.decoded THEN
    [token |-> "", expiresIn |-> 0, err |-> <<"parse refresh response">>]
  ELSE
    [token |-> resp.AccessToken, expiresIn |-> resp.ExpiresIn, err |-> NoError]

\* updateAuthToken leaving the old expiry marker in place.
updateAuthTokenKeepExpiry(auths, authID, newAccessToken, expiresIn, clock) ==
  [i \in 1..Len(auths) |->
     IF auths[i].ID # authID THEN auths[i]
     ELSE [auths[i] EXCEPT !.Metadata =
             [k \in DOMAIN auths[i].Metadata
                    \cup {"access_token", "expires_in", "timestamp"} |->
                CASE k = "access_token" -> newAccessToken
                  [] k = "expires_in"   -> expiresIn
                  [] k = "timestamp"    -> clock * 1000
                  [] OTHER              -> auths[i].Metadata[k]]]]

\* updateAuthToken writing the token to every record, whatever its ID.
updateAuthTokenAnyRecord(auths, authID, newAccessToken, expiresIn, clock) ==
  [i \in 1..Len(auths) |->
     [auths[i] EXCEPT !.Metadata =
        [k \in DOMAIN auths[i].Metadata
               \cup {"access_token", "expires_in", "timestamp", "expired"} |->
           CASE k = "access_token" -> newAccessToken
             [] k = "expires_in"   -> expiresIn
             [] k = "timestamp"    -> clock * 1000
             [] k = "expired"      -> formatRFC3339(clock + expiresIn)
             [] OTHER              -> auths[i].Metadata[k]]]]

\* updateAuthToken building the metadata anew from the token values, without
\* the keys the record had.
updateAuthTokenFreshMetadata(auths, authID, newAccessToken, expiresIn, clock) ==
  [i \in 1..Len(auths) |->
     IF auths[i].ID # authID THEN auths[i]
     ELSE [auths[i] EXCEPT !.Metadata =
             [k \in {"access_token", "expires_in", "timestamp", "expired"} |->
                CASE k = "access_token" -> newAccessToken
                  [] k = "expires_in"   -> expiresIn
                  [] k = "timestamp"    -> clock * 1000
                  [] k = "expired"      -> formatRFC3339(clock + expiresIn)]]]

\* updateAuthToken writing the update instant as the expiry marker, without
\* the lifetime of the token.
updateAuthTokenNoLifetime(auths, authID, newAccessToken, expiresIn, clock) ==
  [i \in 1..Len(auths) |->
     IF auths[i].ID # authID THEN auths[i]
     ELSE [auths[i] EXCEPT !.Metadata =
             [k \in DOMAIN auths[i].Metadata
                    \cup {"access_token", "expires_in", "timestamp", "expired"} |->
                CASE k = "access_token" -> newAccessToken
                  [] k = "expires_in"   -> expiresIn
                  [] k = "timestamp"    -> clock * 1000
                  [] k = "expired"      -> formatRFC3339(clock)
                  [] OTHER              -> auths[i].Metadata[k]]]]

\* updateAuthToken: the record with the given ID gets the new token, the
\* lifetime, the update instant and the new expiry marker.
updateAuthToken(auths, authID, newAccessToken, expiresIn, clock) ==
  [i \in 1..Len(auths) |->
     IF auths[i].ID # authID THEN auths[i]
     ELSE [auths[i] EXCEPT !.Metadata =
             [k \in DOMAIN auths[i].Metadata
                    \cup {"access_token", "expires_in", "timestamp", "expired"} |->
                CASE k = "access_token" -> newAccessToken
                  [] k = "expires_in"   -> expiresIn
                  [] k = "timestamp"    -> clock * 1000
                  [] k = "expired"      -> formatRFC3339(clock + expiresIn)
                  [] OTHER              -> auths[i].Metadata[k]]]]

\* The body of the goroutine as a function of the selected account and of
\* the calls it made with their answers: the token step, then the fetch.
resolveAccount(auth, log) ==
  LET oauth   == SelectSeq(log, LAMBDA c : c.api = "oauth")
      quota   == SelectSeq(log, LAMBDA c : c.api = "quota")
      probe   == SelectSeq(log, LAMBDA c : c.api = "generate")
      fetched == fetchQuotaForAccount(auth.email,
                   [i \in 1..Len(quota) |-> quota[i].resp],
                   [i \in 1..Len(probe) |-> probe[i].resp])
  IN  IF auth.expired /\ auth.refreshToken # "" THEN
        IF oauth = <<>> THEN NoQuota
        ELSE IF refreshAccessToken(oauth[1].resp).err # NoError THEN
          [Status |-> "inactive", ModelQuotas |-> <<>>, Email |-> auth.email,
           Error |-> <<"Token refresh failed">> \o refreshAccessToken(oauth[1].resp).err]
        ELSE fetched
      ELSE IF auth.expired THEN
        [Status |-> "inactive", ModelQuotas |-> <<>>, Email |-> auth.email,
         Error |-> <<"Access token expired and no refresh token available">>]
      ELSE fetched

\* ------------------------------------------------------------------- state
VARIABLES
  managerNil,        \* h.authManager == nil
  store,             \* the records of the credential store, in List() order
  now,               \* the clock
  hpc,               \* position of the request handler: idle, collect, done
  antigravityAuths,  \* the selected accounts
  task,              \* per selected account: the state of its goroutine
  results,           \* the buffered results channel
  closed,            \* close(results) has run
  wg,                \* the WaitGroup counter
  accounts,          \* the results collected so far
  response,          \* the HTTP answer of the handler
  panicked,          \* a goroutine sent on the closed channel
  calls,             \* per selected account: the outbound calls its goroutine
                     \* has issued for the result it has not yet sent
  sends,             \* per selected account: how often it sent a result
  allAuths,          \* the records h.authManager.List() handed to the request
  updates,           \* per selected account: the updateAuthToken calls of its
                     \* goroutine, each with what became of it
  lastSaved          \* the updateAuthToken calls of earlier requests that
                     \* saved a record, the latest for each record

\* ---------------------------------------------- the quota display module
\* The state of AntigravityQuotaModule and of the page it is loaded in.
VARIABLES
  loaded,            \* the script's auto-initialize has run
  styleInjected,     \* the style element of the module is in the page
  isInitialized,     \* state.isInitialized
  refreshTimer,      \* state.refreshTimer: an interval handle, 0 for null
  lastFetchTime,     \* state.lastFetchTime: an instant, 0 for null
  timers,            \* the interval handles that are active in the page
  containers,        \* the quota containers of the page in document order,
                     \* each with its refresh button and its content element
  pending,           \* the fetchQuota calls that wait for their response
  started,           \* how many fetchQuota calls have issued a request
  instant            \* the clock of the page

display == << loaded, styleInjected, isInitialized, refreshTimer, lastFetchTime,
              timers, containers, pending, started, instant >>

\* What a content element shows: kind is "loading", "quota" (the statistics
\* and accounts of a response), "empty" (the no-accounts notice) or "error";
\* fetch is the number of the fetchQuota call that wrote it, lastUpdated the
\* instant of its "Last updated" line (0 when it has none) and at the instant
\* at which it was written.
Content(kind, fetch, lastUpdated, at) ==
  [kind |-> kind, fetch |-> fetch, lastUpdated |-> lastUpdated, at |-> at]

\* The page before the script has run.
InitDisplay ==
  /\ loaded = FALSE
  /\ styleInjected = FALSE
  /\ isInitialized = FALSE
  /\ refreshTimer = 0
  /\ lastFetchTime = 0
  /\ timers = {}
  /\ containers = <<>>
  /\ pending = {}
  /\ started = 0
  /\ instant = 0

\* The state of the request handler and of the credential store.
handler == << managerNil, store, now, hpc, antigravityAuths, task, results, closed,
              wg, accounts, response, panicked, calls, sends, allAuths, updates,
              lastSaved >>

vars == << handler, display >>

Tasks == 1..Len(antigravityAuths)

NoResponse == [code |-> 0]

\* ------------------------------------------------------------ initial state
EmailOf(i) ==
  CASE i = 1 -> "ann@example.com"
    [] i = 2 -> "bob@example.com"
    [] i = 3 -> "cyd@example.com"
    [] OTHER -> "dee@example.com"

Meta(i, type, token, refresh, expiry) ==
  [type |-> type, email |-> EmailOf(i), project_id |-> "project",
   access_token |-> token, refresh_token |-> refresh, expired |-> expiry]

\* The kinds of credential record: kind names what the record looks like.
RecordOf(i, kind) ==
  CASE kind = "valid" ->
         [ID |-> ToString(i), Provider |-> "antigravity",
          Metadata |-> Meta(i, "antigravity", "stored", "refresh", "20")]
    [] kind = "expired" ->
         [ID |-> ToString(i), Provider |-> "antigravity",
          Metadata |-> Meta(i, "antigravity", "stored", "refresh", "5")]
    [] kind = "expired-norefresh" ->
         [ID |-> ToString(i), Provider |-> "antigravity",
          Metadata |-> Meta(i, "antigravity", "stored", "", "5")]
    [] kind = "notoken" ->
         [ID |-> ToString(i), Provider |-> "antigravity",
          Metadata |-> Meta(i, "antigravity", "", "refresh", "20")]
    [] kind = "other" ->
         [ID |-> ToString(i), Provider |-> "gemini",
          Metadata |-> Meta(i, "gemini", "stored", "refresh", "5")]
    [] kind = "bytype" ->
         [ID |-> ToString(i), Provider |-> "",
          Metadata |-> Meta(i, "antigravity", "stored", "", "")]
    [] kind = "badexpiry" ->
         [ID |-> ToString(i), Provider |-> "antigravity",
          Metadata |-> Meta(i, "antigravity", "stored", "refresh", "soon")]
    [] kind = "noexpiry" ->
         [ID |-> ToString(i), Provider |-> "antigravity",
          Metadata |-> Meta(i, "antigravity", "stored", "refresh", "")]
    [] kind = "expiring" ->
         [ID |-> ToString(i), Provider |-> "antigravity",
          Metadata |-> Meta(i, "antigravity", "stored", "refresh", "10")]
    [] kind = "nometa" ->
         [ID |-> ToString(i), Provider |-> "antigravity", Metadata |-> <<>>]

CoreKinds == {"valid", "expired", "expired-norefresh", "notoken"}

AllKinds ==
  CoreKinds \cup {"other", "bytype", "badexpiry", "noexpiry", "expiring", "nometa"}

Stores(n, kinds) ==
  UNION { { [i \in 1..m |-> RecordOf(i, ks[i])] : ks \in [1..m -> kinds] } : m \in 0..n }

InitWith(stores) ==
  /\ managerNil \in BOOLEAN
  /\ store \in (IF managerNil THEN {<<>>} ELSE stores)
  /\ now = 10
  /\ hpc = "idle"
  /\ antigravityAuths = <<>>
  /\ task = <<>>
  /\ results = <<>>
  /\ closed = FALSE
  /\ wg = 0
  /\ accounts = <<>>
  /\ response = NoResponse
  /\ panicked = FALSE
  /\ calls = <<>>
  /\ sends = <<>>
  /\ allAuths = <<>>
  /\ updates = <<>>
  /\ lastSaved = {}
  /\ InitDisplay

Init == InitWith(Stores(MaxAccounts, CoreKinds))

\* The kinds SpecAccount draws its record from.
AccountKinds == CoreKinds \cup {"other"}

InitAccount == InitWith(Stores(1, AccountKinds))

\* ------------------------------------------------- what upstream may answer
\* rich = FALSE: plain answers of every class; rich = TRUE: also bodies and
\* error texts that contain the words the endpoint loop searches for.
TextBody(raw) == [shape |-> "text", models |-> <<>>, raw |-> raw]

Raws(rich) ==
  IF rich
  THEN {<<"denied">>, <<"unauthorized">>, <<"access token expired">>,
        <<"forbidden">>, <<"banned">>, <<"404">>}
  ELSE {<<"denied">>}

\* The failures of a call: which step failed and the error text.
NetFailures(rich) ==
  IF rich
  THEN {<<"do", <<"timeout">> >>, <<"read", <<"timeout">> >>,
        <<"do", <<"read tcp", "404", "connection reset">> >>}
  ELSE {<<"do", <<"timeout">> >>}

ArrayEntry(model, limit, remaining) ==
  [Model |-> model, RpmLimit |-> limit, RemainingRpm |-> remaining,
   ResetTimeStamp |-> ""]

MapEntry(model, has, num, den) ==
  [Model |-> model, HasFraction |-> has, FractionNum |-> num, FractionDen |-> den,
   ResetTime |-> ""]

OkBodies(rich) ==
  { [shape |-> "array", raw |-> <<"{models:[..]}">>,
     models |-> <<ArrayEntry("gemini-2.5-pro", 100, 25)>>] }
  \cup
  IF ~rich THEN {}
  ELSE { [shape |-> "array", raw |-> <<"{models:[..]}">>,
          models |-> <<ArrayEntry("gemini-2.5-pro", 0, 0),
                       ArrayEntry("gemini-2.5-flash", 100, 25)>>],
         [shape |-> "array", raw |-> <<"{models:[..]}">>,
          models |-> <<ArrayEntry("gemini-2.5-flash", 100, 25),
                       ArrayEntry("gemini-2.0-flash", 0, 7),
                       ArrayEntry("gemini-2.5-pro", 50, 50)>>],
         [shape |-> "array", raw |-> <<"{models:[..]}">>,
          models |-> <<ArrayEntry("gemini-2.5-pro", 100, 150)>>],
         [shape |-> "array", raw |-> <<"{models:[]}">>, models |-> <<>>],
         [shape |-> "map", raw |-> <<"{models:{..}}">>,
          models |-> <<MapEntry("gemini-2.5-pro", TRUE, 4, 10),
                       MapEntry("gemini-2.5-flash", FALSE, 0, 1)>>],
         [shape |-> "map", raw |-> <<"{models:{}}">>, models |-> <<>>],
         [shape |-> "none", raw |-> <<"{}">>, models |-> <<>>] }
       \cup { TextBody(raw) : raw \in Raws(rich) }

EndpointResponses(rich) ==
  { [failed |-> f[1], neterr |-> f[2], status |-> 0, body |-> TextBody(<<>>)] :
      f \in NetFailures(rich) }
  \cup
  { [failed |-> "no", neterr |-> <<>>, status |-> st, body |-> TextBody(<<"denied">>)] :
      st \in {401, 404} }
  \cup
  { [failed |-> "no", neterr |-> <<>>, status |-> st, body |-> TextBody(raw)] :
      st \in {403} \cup (IF rich THEN {500} ELSE {}), raw \in Raws(rich) }
  \cup
  { [failed |-> "no", neterr |-> <<>>, status |-> 200, body |-> b] :
      b \in OkBodies(rich) }

Headers(limit, remaining) ==
  [failed |-> FALSE, Limit |-> limit, Remaining |-> remaining,
   Reset |-> IF limit = "" THEN "" ELSE "60"]

CallFailed == [failed |-> TRUE, Limit |-> "", Remaining |-> "", Reset |-> ""]

\* The answers of the generation API to the probe of modelsToCheck[i].
ProbeResponses(rich, i) ==
  IF i > MaxHeaderModels \/ (~rich /\ i > 1)
  THEN {Headers("", "")} \cup (IF rich THEN {CallFailed} ELSE {})
  ELSE {CallFailed, Headers("", ""), Headers("100", "25")}
       \cup (IF ~rich THEN {}
             ELSE {Headers("0", "25"), Headers("many", "25"),
                   Headers("100", "few"), Headers("100", "150")})

\* The models whose answers may carry headers: the first MaxHeaderModels
\* for a rich upstream, the first one for a plain upstream.
HeaderModels(rich) ==
  IF ~rich THEN {1}
  ELSE 1..(IF MaxHeaderModels < Len(modelsToCheck) THEN MaxHeaderModels
           ELSE Len(modelsToCheck))

\* One answer per model of modelsToCheck; the models that carry no headers
\* all answer alike.
ProbeRuns(rich) ==
  { [i \in 1..Len(modelsToCheck) |-> IF i \in HeaderModels(rich) THEN h[i] ELSE t] :
      h \in [HeaderModels(rich) -> ProbeResponses(rich, 1)],
      t \in ProbeResponses(rich, Len(modelsToCheck) + MaxHeaderModels) }

\* The access token the OAuth exchange hands out at the present instant;
\* tokens handed out at different instants differ.
IssuedToken == "fresh-" \o ToString(now)

RefreshResponses(rich) ==
  { [failed |-> TRUE, status |-> 0, body |-> <<>>, decoded |-> FALSE,
     AccessToken |-> "", ExpiresIn |-> 0],
    [failed |-> FALSE, status |-> 400, body |-> <<"invalid_grant">>, decoded |-> FALSE,
     AccessToken |-> "", ExpiresIn |-> 0],
    [failed |-> FALSE, status |-> 200, body |-> <<>>, decoded |-> TRUE,
     AccessToken |-> IssuedToken, ExpiresIn |-> 5] }
  \cup
  IF ~rich THEN {}
  ELSE { [failed |-> FALSE, status |-> 200, body |-> <<>>, decoded |-> FALSE,
          AccessToken |-> "", ExpiresIn |-> 0],
         [failed |-> FALSE, status |-> 200, body |-> <<>>, decoded |-> TRUE,
          AccessToken |-> "", ExpiresIn |-> 0],
         [failed |-> FALSE, status |-> 200, body |-> <<>>, decoded |-> TRUE,
          AccessToken |-> "", ExpiresIn |-> 5] }

\* ----------------------------------------------------------- the handler
NewTask ==
  [pc |-> "start", actualToken |-> "", ep |-> 1, lastError |-> NoError,
   quota |-> NoQuota, newToken |-> "", expiresIn |-> 0]

\* A goroutine that returns without sending its result.
ReturnedUnsent(quota) == [NewTask EXCEPT !.pc = "done"]

\* The goroutine holds the result it is about to send; the locals of the
\* calls that have returned are gone.
Returned(quota) == [NewTask EXCEPT !.pc = "send", !.quota = quota]

Exited(pc) == [NewTask EXCEPT !.pc = pc]

Quota(a, status, modelQuotas, error) ==
  [Status |-> status, ModelQuotas |-> modelQuotas, Error |-> error,
   Email |-> antigravityAuths[a].email]

\* One entry of the call log: the API, the endpoint or model called, the
\* bearer or refresh token sent and the answer received.
Call(api, target, token, resp) ==
  [api |-> api, target |-> target, token |-> token, resp |-> resp]

\* h.authManager == nil: the handler answers 503.
ManagerUnavailable ==
  /\ hpc = "idle"
  /\ managerNil
  /\ response' = [code |-> 503, error |-> "auth manager unavailable"]
  /\ hpc' = "done"
  /\ UNCHANGED << managerNil, store, now, antigravityAuths, task, results, closed,
                  wg, accounts, panicked, calls, sends, allAuths, updates,
                  lastSaved, display >>

\* The filter loop, make(chan, len) and the launch of one goroutine per
\* selected account (wg.Add(1) before each) and of the closing goroutine.
GetAntigravityQuota ==
  /\ hpc = "idle"
  /\ ~managerNil
  /\ allAuths' = store
  /\ LET selected == selectAuths(store, now)
     IN  /\ antigravityAuths' = selected
         /\ task' = [a \in 1..Len(selected) |-> NewTask]
         /\ calls' = [a \in 1..Len(selected) |-> <<>>]
         /\ sends' = [a \in 1..Len(selected) |-> 0]
         /\ updates' = [a \in 1..Len(selected) |-> <<>>]
         /\ wg' = Len(selected)
  /\ results' = <<>>
  /\ closed' = FALSE
  /\ accounts' = <<>>
  /\ hpc' = "collect"
  /\ UNCHANGED << managerNil, store, now, response, panicked, lastSaved, display >>

\* A goroutine that goes on to the fetch with the refreshed token without
\* saving it first.
RefreshTokenUnsaved(a, rich) ==
  /\ task[a].pc = "start"
  /\ antigravityAuths[a].expired
  /\ antigravityAuths[a].refreshToken # ""
  /\ \E resp \in RefreshResponses(rich) :
       LET r == refreshAccessToken(resp)
       IN  /\ calls' = [calls EXCEPT ![a] =
                          Append(@, Call("oauth", "token", antigravityAuths[a].refreshToken, resp))]
           /\ IF r.err # NoError
              THEN task' = [task EXCEPT ![a] =
                     Returned(Quota(a, "inactive", <<>>,
                                    <<"Token refresh failed">> \o r.err))]
              ELSE task' = [task EXCEPT
                     ![a].pc = "fetch",
                     ![a].actualToken = r.token,
                     ![a].newToken = r.token,
                     ![a].expiresIn = r.expiresIn]
  /\ UNCHANGED << managerNil, store, now, hpc, antigravityAuths, results, closed,
                  wg, accounts, response, panicked, sends, allAuths, updates,
                  lastSaved, display >>

\* Goroutine, branch "expired && refreshToken != """: the OAuth exchange.
RefreshToken(a, rich) ==
  /\ task[a].pc = "start"
  /\ antigravityAuths[a].expired
  /\ antigravityAuths[a].refreshToken # ""
  /\ \E resp \in RefreshResponses(rich) :
       LET r == refreshAccessToken(resp)
       IN  /\ calls' = [calls EXCEPT ![a] =
                          Append(@, Call("oauth", "token", antigravityAuths[a].refreshToken, resp))]
           /\ IF r.err # NoError
              THEN task' = [task EXCEPT ![a] =
                     Returned(Quota(a, "inactive", <<>>,
                                    <<"Token refresh failed">> \o r.err))]
              ELSE task' = [task EXCEPT
                     ![a].pc = "persist",
                     ![a].actualToken = r.token,
                     ![a].newToken = r.token,
                     ![a].expiresIn = r.expiresIn]
  /\ UNCHANGED << managerNil, store, now, hpc, antigravityAuths, results, closed,
                  wg, accounts, response, panicked, sends, allAuths, updates,
                  lastSaved, display >>

\* What becomes of an updateAuthToken call: "ok" saves the record, "notfound"
\* is GetByID not finding the record, "updatefail" is Update failing (its
\* error is dropped). A plain store always saves.
PersistOutcomes(rich) ==
  IF rich THEN {"ok", "notfound", "updatefail"} ELSE {"ok"}

\* One entry of the update log: the record asked for, the token and lifetime
\* to be saved, the instant of the call and what became of it.
Update(authID, token, expiresIn, at, outcome) ==
  [ID |-> authID, token |-> token, expiresIn |-> expiresIn, at |-> at,
   outcome |-> outcome]

\* A goroutine that gives up when the refreshed token cannot be saved.
PersistTokenOrFail(a, rich) ==
  /\ task[a].pc = "persist"
  /\ \E outcome \in PersistOutcomes(rich) :
       /\ store' = IF outcome = "ok"
                   THEN updateAuthToken(store, antigravityAuths[a].authID,
                                        task[a].newToken, task[a].expiresIn, now)
                   ELSE store
       /\ updates' = [updates EXCEPT ![a] =
            Append(@, Update(antigravityAuths[a].authID, task[a].newToken,
                             task[a].expiresIn, now, outcome))]
       /\ task' = IF outcome = "ok"
                  THEN [task EXCEPT ![a].pc = "fetch"]
                  ELSE [task EXCEPT ![a] =
                         Returned(Quota(a, "error", <<>>, <<"Token update failed">>))]
  /\ UNCHANGED << managerNil, now, hpc, antigravityAuths, results, closed, wg,
                  accounts, response, panicked, calls, sends, allAuths,
                  lastSaved, display >>

\* Goroutine after a successful refresh: h.updateAuthToken, whose outcome the
\* goroutine does not look at.
PersistToken(a, rich) ==
  /\ task[a].pc = "persist"
  /\ \E outcome \in PersistOutcomes(rich) :
       /\ store' = IF outcome = "ok"
                   THEN updateAuthToken(store, antigravityAuths[a].authID,
                                        task[a].newToken, task[a].expiresIn, now)
                   ELSE store
       /\ updates' = [updates EXCEPT ![a] =
            Append(@, Update(antigravityAuths[a].authID, task[a].newToken,
                             task[a].expiresIn, now, outcome))]
  /\ task' = [task EXCEPT ![a].pc = "fetch"]
  /\ UNCHANGED << managerNil, now, hpc, antigravityAuths, results, closed, wg,
                  accounts, response, panicked, calls, sends, allAuths,
                  lastSaved, display >>

\* A goroutine that tries the stored token of an expired account that has no
\* refresh token.
ExpiredTriesStoredToken(a) ==
  /\ task[a].pc = "start"
  /\ antigravityAuths[a].expired
  /\ antigravityAuths[a].refreshToken = ""
  /\ task' = [task EXCEPT ![a].pc = "fetch",
                          ![a].actualToken = antigravityAuths[a].accessToken]
  /\ UNCHANGED << managerNil, store, now, hpc, antigravityAuths, results, closed,
                  wg, accounts, response, panicked, calls, sends, allAuths,
                  updates, lastSaved, display >>

\* Goroutine, branch "else if expired": no refresh token.
ExpiredNoRefreshToken(a) ==
  /\ task[a].pc = "start"
  /\ antigravityAuths[a].expired
  /\ antigravityAuths[a].refreshToken = ""
  /\ task' = [task EXCEPT ![a] =
       Returned(Quota(a, "inactive", <<>>,
                      <<"Access token expired and no refresh token available">>))]
  /\ UNCHANGED << managerNil, store, now, hpc, antigravityAuths, results, closed,
                  wg, accounts, response, panicked, calls, sends, allAuths,
                  updates, lastSaved, display >>

\* Goroutine, branch "else": the stored token is used.
UseExistingToken(a) ==
  /\ task[a].pc = "start"
  /\ ~antigravityAuths[a].expired
  /\ task' = [task EXCEPT ![a].pc = "fetch",
                          ![a].actualToken = antigravityAuths[a].accessToken]
  /\ UNCHANGED << managerNil, store, now, hpc, antigravityAuths, results, closed,
                  wg, accounts, response, panicked, calls, sends, allAuths,
                  updates, lastSaved, display >>

\* fetchQuotaForAccount: one pass of the endpoint loop, the call to
\* endpoints[ep] and what the loop body does with its outcome.
CallEndpoint(a, rich) ==
  /\ task[a].pc = "fetch"
  /\ \E resp \in EndpointResponses(rich) :
       LET r    == callQuotaEndpoint(resp, antigravityAuths[a].email)
           next == afterEndpointError(r.err)
       IN  /\ calls' = [calls EXCEPT ![a] =
                          Append(@, Call("quota", endpoints[task[a].ep], task[a].actualToken, resp))]
           /\ IF r.err = NoError THEN
                task' = [task EXCEPT ![a] = Returned(r.quota)]
              ELSE IF next = "inactive" THEN
                task' = [task EXCEPT ![a] =
                  Returned(Quota(a, "inactive", <<>>,
                    <<"Access token expired. Please re-login: CLIProxyAPI -antigravity-login">>))]
              ELSE IF next = "fallback" THEN
                task' = [task EXCEPT ![a].pc = "probe", ![a].lastError = r.err]
              ELSE IF next = "continue" /\ task[a].ep < Len(endpoints) THEN
                task' = [task EXCEPT ![a].ep = @ + 1, ![a].lastError = r.err]
              ELSE
                task' = [task EXCEPT ![a] = Returned(Quota(a, "error", <<>>, r.err))]
  /\ UNCHANGED << managerNil, store, now, hpc, antigravityAuths, results, closed,
                  wg, accounts, response, panicked, sends, allAuths, updates,
                  lastSaved, display >>

\* fetchQuotaForAccount after a forbidden answer: fetchQuotaFromHeaders and
\* the result built from it.
ProbeHeaders(a, rich) ==
  /\ task[a].pc = "probe"
  /\ \E resps \in ProbeRuns(rich) :
       LET r == fetchQuotaFromHeaders(resps)
       IN  /\ calls' = [calls EXCEPT ![a] = @ \o
                          [i \in 1..Len(r.called) |->
                             Call("generate", r.called[i], task[a].actualToken, resps[i])]]
           /\ IF r.err = NoError
              THEN task' = [task EXCEPT ![a] =
                     Returned(Quota(a, "active", r.quotas, <<>>))]
              ELSE task' = [task EXCEPT ![a] =
                     Returned(Quota(a, "inactive", <<>>,
                                    <<"Access forbidden and fallback failed">> \o r.err))]
  /\ UNCHANGED << managerNil, store, now, hpc, antigravityAuths, results, closed,
                  wg, accounts, response, panicked, sends, allAuths, updates,
                  lastSaved, display >>

\* A channel that holds one value.
canSendOne == Len(results) < 1

\* The buffered channel takes a value while it holds fewer than its capacity.
canSend == Len(results) < Len(antigravityAuths)

\* Goroutine: results <- quota, the return and the deferred wg.Done(); a send
\* on a closed channel panics.
SendResult(a) ==
  /\ task[a].pc = "send"
  /\ closed \/ canSend
  /\ IF closed
     THEN /\ panicked' = TRUE
          /\ UNCHANGED << results, sends >>
     ELSE /\ results' = Append(results, task[a].quota)
          /\ sends' = [sends EXCEPT ![a] = @ + 1]
          /\ UNCHANGED panicked
  /\ wg' = wg - 1
  /\ task' = [task EXCEPT ![a] = Exited("done")]
  /\ calls' = [calls EXCEPT ![a] = <<>>]
  /\ UNCHANGED << managerNil, store, now, hpc, antigravityAuths, closed,
                  accounts, response, allAuths, updates, lastSaved, display >>

\* A closing goroutine that does not wait for the tasks.
waitSkipped == wg >= 0

\* A wait that never returns (a task that misses its wg.Done()).
waitNever == wg < 0

\* wg.Wait() returns once the counter is zero.
waitReturns == wg = 0

\* The closing goroutine: wg.Wait(); close(results).
CloseResults ==
  /\ hpc = "collect"
  /\ ~closed
  /\ waitReturns
  /\ closed' = TRUE
  /\ UNCHANGED << managerNil, store, now, hpc, antigravityAuths, task, results, wg,
                  accounts, response, panicked, calls, sends, allAuths,
                  updates, lastSaved, display >>

\* A collector that puts each received result in front of the earlier ones.
CollectResultInFront ==
  /\ hpc = "collect"
  /\ results # <<>>
  /\ accounts' = <<Head(results)>> \o accounts
  /\ results' = Tail(results)
  /\ UNCHANGED << managerNil, store, now, hpc, antigravityAuths, task, closed, wg,
                  response, panicked, calls, sends, allAuths, updates,
                  lastSaved, display >>

\* The collector: one iteration of "for quota := range results".
CollectResult ==
  /\ hpc = "collect"
  /\ results # <<>>
  /\ accounts' = Append(accounts, Head(results))
  /\ results' = Tail(results)
  /\ UNCHANGED << managerNil, store, now, hpc, antigravityAuths, task, closed, wg,
                  response, panicked, calls, sends, allAuths, updates,
                  lastSaved, display >>

\* The collector: the range loop ends on the closed, drained channel; the
\* statistics are counted and the report is answered with 200.
Respond ==
  /\ hpc = "collect"
  /\ results = <<>>
  /\ closed
  /\ response' = buildResponse(accounts)
  /\ hpc' = "done"
  /\ UNCHANGED << managerNil, store, now, antigravityAuths, task, results, closed,
                  wg, accounts, panicked, calls, sends, allAuths, updates,
                  lastSaved, display >>

\* The handler is called again: every request starts from fresh locals and
\* shares only the credential store with the earlier ones; the clock may
\* have gone on in between.
NextRequest ==
  /\ hpc = "done"
  /\ \E clock \in now..MaxClock : now' = clock
  /\ lastSaved' =
       LET saved == {u \in UNION {{updates[a][k] : k \in 1..Len(updates[a])} :
                                    a \in 1..Len(updates)} : u.outcome = "ok"}
       IN  saved \cup {u \in lastSaved : \A v \in saved : v.ID # u.ID}
  /\ hpc' = "idle"
  /\ antigravityAuths' = <<>>
  /\ task' = <<>>
  /\ results' = <<>>
  /\ closed' = FALSE
  /\ wg' = 0
  /\ accounts' = <<>>
  /\ response' = NoResponse
  /\ calls' = <<>>
  /\ sends' = <<>>
  /\ allAuths' = <<>>
  /\ updates' = <<>>
  /\ UNCHANGED << managerNil, store, panicked, display >>

\* rich says what the quota and generation APIs may answer, richAuth what
\* the OAuth exchange and the credential store may do.
TaskStep(a, rich, richAuth) ==
  \/ RefreshToken(a, richAuth)
  \/ PersistToken(a, richAuth)
  \/ ExpiredNoRefreshToken(a)
  \/ UseExistingToken(a)
  \/ CallEndpoint(a, rich)
  \/ ProbeHeaders(a, rich)
  \/ SendResult(a)

NextWith(rich, richAuth) ==
  \/ ManagerUnavailable
  \/ GetAntigravityQuota
  \/ \E a \in Tasks : TaskStep(a, rich, richAuth)
  \/ CloseResults
  \/ CollectResult
  \/ Respond

\* Several accounts against an upstream that gives plain answers.
Next == NextWith(FALSE, FALSE)

Spec == Init /\ [][Next]_vars

\* One account against an upstream that may answer anything.
NextAccount == NextWith(TRUE, FALSE)

SpecAccount == InitAccount /\ [][NextAccount]_vars

\* Every enabled step is eventually taken: goroutines are scheduled and every
\* outbound call returns.
InitFair == InitWith(Stores(MaxFairAccounts, CoreKinds))

FairSpec == InitFair /\ [][Next]_vars /\ WF_vars(Next)

\* One account, with every kind of expiry marker, against an OAuth exchange
\* and a credential store that may fail in every way; the quota and
\* generation APIs give plain answers. The handler serves one request after
\* the other while the clock goes on.
TokenKinds == CoreKinds \cup {"badexpiry", "noexpiry", "expiring"}

InitToken == InitWith(Stores(1, TokenKinds))

NextToken == NextWith(FALSE, TRUE) \/ NextRequest

SpecToken == InitToken /\ [][NextToken]_vars

\* Stores that mix records of the provider (tagged by field or by the type
\* key only, with and without token) with records of another provider.
SelectKinds ==
  {"expired", "expired-norefresh", "bytype", "notoken", "other", "nometa"}

InitSelect == InitWith(Stores(MaxAccounts, SelectKinds))

SpecSelect == InitSelect /\ [][Next]_vars

\* ------------------------------------------ the quota display module: steps
\* The number of fetchQuota calls that issue a request in one run.
MaxFetches == 3

\* The least positive number that is not in used.
Fresh(used) ==
  CHOOSE n \in 1..(Cardinality(used) + 1) :
    n \notin used /\ \A m \in 1..(n - 1) : m \in used

\* The elements the page or a waiting fetchQuota call holds.
ElementsInUse ==
  {containers[i].id : i \in 1..Len(containers)} \cup {f.contentEl : f \in pending}

\* createContainer: a new container with an enabled refresh button and the
\* loading notice, put before the first child of the target element.
createContainer(els) ==
  << [id |-> Fresh(ElementsInUse), disabled |-> FALSE,
      content |-> Content("loading", 0, 0, instant)] >> \o els

\* fetchQuota up to its first await, on the page with the containers els:
\* without a content element it returns at once; otherwise it disables the
\* first refresh button of the page and sends the request, keeping the
\* content element it found.
fetchQuota(els) ==
  IF els = <<>>
  THEN [containers |-> els, pending |-> pending, started |-> started,
        instant |-> instant]
  ELSE [containers |-> [els EXCEPT ![1].disabled = TRUE],
        pending |-> pending \cup {[n |-> started + 1, contentEl |-> els[1].id]},
        started |-> started + 1,
        instant |-> instant + 1]

\* renderQuota: writes to the first content element of the page, if any; a
\* response without accounts gives the notice and no "Last updated" line, a
\* response with accounts gets the line when state.lastFetchTime is set.
renderQuota(els, n, data, at) ==
  IF els = <<>> THEN els
  ELSE IF data = "empty"
  THEN [els EXCEPT ![1].content = Content("empty", n, 0, at)]
  ELSE [els EXCEPT ![1].content = Content("quota", n, lastFetchTime, at)]

\* The catch block of fetchQuota: the error goes to the content element the
\* call found when it started, whether or not it is still in the page.
showError(els, f, at) ==
  [i \in 1..Len(els) |->
     IF els[i].id = f.contentEl
     THEN [els[i] EXCEPT !.content = Content("error", f.n, 0, at)]
     ELSE els[i]]

\* The finally block of fetchQuota: the first refresh button of the page is
\* enabled.
enableButton(els) ==
  IF els = <<>> THEN els ELSE [els EXCEPT ![1].disabled = FALSE]

\* setupAutoRefresh keeping the interval it replaces.
setupAutoRefreshNoClear ==
  LET handle == Fresh(timers)
  IN  [refreshTimer |-> handle, timers |-> timers \cup {handle}]

\* setupAutoRefresh: clears the interval of state.refreshTimer, if any, and
\* starts a new one.
setupAutoRefresh ==
  LET cleared == IF refreshTimer # 0 THEN timers \ {refreshTimer} ELSE timers
      handle  == Fresh(timers \cup {refreshTimer})
  IN  [refreshTimer |-> handle, timers |-> cleared \cup {handle}]

\* init(): nothing when already initialized; otherwise injectStyles,
\* createContainer, fetchQuota (up to its await) and setupAutoRefresh.
init ==
  IF isInitialized
  THEN UNCHANGED << styleInjected, isInitialized, refreshTimer, lastFetchTime,
                    timers, containers, pending, started, instant >>
  ELSE /\ started < MaxFetches
       /\ styleInjected' = TRUE
       /\ LET sent == fetchQuota(createContainer(containers))
          IN  /\ containers' = sent.containers
              /\ pending' = sent.pending
              /\ started' = sent.started
              /\ instant' = sent.instant
       /\ refreshTimer' = setupAutoRefresh.refreshTimer
       /\ timers' = setupAutoRefresh.timers
       /\ isInitialized' = TRUE
       /\ UNCHANGED lastFetchTime

\* The script has been evaluated and the document is ready: the module
\* initializes itself.
AutoInit ==
  /\ ~loaded
  /\ loaded' = TRUE
  /\ init
  /\ UNCHANGED handler

\* The page calls AntigravityQuotaModule.init().
ManualInit ==
  /\ ~isInitialized
  /\ init
  /\ UNCHANGED << loaded, handler >>

\* The page calls AntigravityQuotaModule.init() on the initialized module.
InitAgain ==
  /\ isInitialized
  /\ init
  /\ UNCHANGED << loaded, handler >>

\* The page calls AntigravityQuotaModule.setupAutoRefresh().
ManualSetupAutoRefresh ==
  /\ refreshTimer' = setupAutoRefresh.refreshTimer
  /\ timers' = setupAutoRefresh.timers
  /\ UNCHANGED << loaded, styleInjected, isInitialized, lastFetchTime, containers,
                  pending, started, instant, handler >>

\* The page calls AntigravityQuotaModule.destroy().
destroy ==
  /\ timers' = IF refreshTimer # 0 THEN timers \ {refreshTimer} ELSE timers
  /\ refreshTimer' = 0
  /\ containers' = IF containers # <<>> THEN Tail(containers) ELSE containers
  /\ isInitialized' = FALSE
  /\ UNCHANGED << loaded, styleInjected, lastFetchTime, pending, started, instant,
                  handler >>

\* A fetchQuota call made from outside: it is taken while the bound on the
\* requests of a run allows one more.
CallFetchQuota ==
  /\ started < MaxFetches
  /\ LET sent == fetchQuota(containers)
     IN  /\ containers' = sent.containers
         /\ pending' = sent.pending
         /\ started' = sent.started
         /\ instant' = sent.instant
  /\ UNCHANGED << loaded, styleInjected, isInitialized, refreshTimer,
                  lastFetchTime, timers, handler >>

\* An active interval fires: its callback calls fetchQuota.
TimerTick ==
  /\ timers # {}
  /\ containers # <<>>
  /\ CallFetchQuota

\* The user clicks a refresh button that is not disabled: its onclick calls
\* AntigravityQuotaModule.fetchQuota().
ClickRefresh ==
  /\ \E i \in 1..Len(containers) : ~containers[i].disabled
  /\ CallFetchQuota

\* What the request of a fetchQuota call comes to: a response with accounts,
\* a response without accounts, or a failure (the request fails, the status
\* is not ok, or the body is not what renderQuota can show).
Outcomes == {"accounts", "empty", "fail"}

\* fetchQuota after its awaits: with a response it calls renderQuota and
\* then sets state.lastFetchTime; with a failure it writes the error to its
\* content element; in both cases it enables the refresh button.
FetchCompletes ==
  \E f \in pending : \E outcome \in Outcomes :
    /\ pending' = pending \ {f}
    /\ instant' = instant + 1
    /\ IF outcome = "fail"
       THEN /\ containers' = enableButton(showError(containers, f, instant'))
            /\ UNCHANGED lastFetchTime
       ELSE /\ containers' = enableButton(renderQuota(containers, f.n, outcome, instant'))
            /\ lastFetchTime' = instant'
    /\ UNCHANGED << loaded, styleInjected, isInitialized, refreshTimer, timers,
                    started, handler >>

NextDisplay ==
  \/ AutoInit
  \/ ManualInit
  \/ InitAgain
  \/ ManualSetupAutoRefresh
  \/ destroy
  \/ TimerTick
  \/ ClickRefresh
  \/ FetchCompletes

\* The page with the module, without requests to the handler of its own.
InitPage == InitWith({<<>>}) /\ ~managerNil

SpecDisplay == InitPage /\ [][NextDisplay]_vars

TypeOK ==
  /\ hpc \in {"idle", "collect", "done"}
  /\ wg \in 0..Len(antigravityAuths)
  /\ \A a \in Tasks : task[a].pc \in {"start", "persist", "fetch", "probe", "send", "done"}

\* --------------------------------------------------- reading the call log
QuotaCalls(a) == SelectSeq(calls[a], LAMBDA c : c.api = "quota")

ProbeCalls(a) == SelectSeq(calls[a], LAMBDA c : c.api = "generate")

Answered(c, status) == c.resp.failed = "no" /\ c.resp.status = status

\* The task holds its finished result and the calls that led to it.
Resolved(a) == task[a].pc = "send"

StatusValues == {"active", "inactive", "error"}

EntriesFor(accs, email) == {i \in 1..Len(accs) : accs[i].Email = email}


\* ------------------------------------------------------------------ claims

\* C1: whatever path a resolution task takes, it sends exactly one Account
\* Quota: a task that has finished has sent once, a task still running has
\* not sent, and the report holds one entry per selected account, so that
\* total_accounts is the number of selected accounts.
C1_ExactlyOneResult ==
  /\ \A a \in Tasks :
       sends[a] = (IF task[a].pc = "done" THEN 1 ELSE 0)
  /\ Len(results) + Len(accounts) =
       Cardinality({a \in Tasks : task[a].pc = "done"})
  /\ (hpc = "done" /\ response.code = 200) =>
       /\ response.TotalAccounts = Len(antigravityAuths)
       /\ \A a \in Tasks :
            Cardinality(EntriesFor(response.Accounts, antigravityAuths[a].email)) = 1

C1_Witness ==
  /\ hpc = "done"
  /\ response.code = 200
  /\ response.TotalAccounts = 2
  /\ \E i, j \in 1..2 :
       /\ response.Accounts[i].Error = <<"Access token expired and no refresh token available">>
       /\ response.Accounts[j].Status = "active"

\* C2: in every report active + inactive + error equals total, and every
\* Account Quota that a task holds, the channel carries or the collector has
\* taken has one of the three statuses.
C2_StatusCounts ==
  /\ \A a \in Tasks : Resolved(a) => task[a].quota.Status \in StatusValues
  /\ \A i \in 1..Len(results) : results[i].Status \in StatusValues
  /\ \A i \in 1..Len(accounts) : accounts[i].Status \in StatusValues
  /\ (hpc = "done" /\ response.code = 200) =>
       response.ActiveAccounts + response.InactiveAccounts + response.ErrorAccounts
         = response.TotalAccounts

C2_Witness ==
  /\ hpc = "done"
  /\ response.code = 200
  /\ response.TotalAccounts = 2
  /\ response.ActiveAccounts = 1
  /\ response.ErrorAccounts = 1

\* C3: the results channel is closed only when every resolution task has
\* finished, so no task sends on the closed channel and no result is still to
\* be sent once the collector can see the channel closed.
C3_CloseAfterTasks ==
  /\ ~panicked
  /\ closed => \A a \in Tasks : task[a].pc = "done" /\ sends[a] = 1

C3_Witness ==
  /\ closed
  /\ Len(antigravityAuths) = 2
  /\ Len(results) = 2

C5_UnauthorizedStops ==
  \A a \in Tasks : \A i \in 1..Len(calls[a]) :
    (calls[a][i].api = "quota" /\ Answered(calls[a][i], 401)) =>
      /\ i = Len(calls[a])
      /\ Resolved(a)
      /\ task[a].quota.Status = "inactive"
      /\ ProbeCalls(a) = <<>>

C5_Witness ==
  \E a \in Tasks :
    /\ Resolved(a)
    /\ Len(QuotaCalls(a)) = 2
    /\ Answered(QuotaCalls(a)[1], 404)
    /\ Answered(QuotaCalls(a)[2], 401)

\* The last primary call of a task answered with the given status.
LastAnswered(a, status) ==
  /\ QuotaCalls(a) # <<>>
  /\ Answered(QuotaCalls(a)[Len(QuotaCalls(a))], status)

\* A primary call that failed otherwise than by 401, 403 or 404: a transport
\* failure, another status, or a 200 whose body parses in neither format.
OtherFailure(c) ==
  \/ c.resp.failed # "no"
  \/ /\ c.resp.status \notin {401, 403, 404}
     /\ callQuotaEndpoint(c.resp, "").err # NoError

\* A generation answer with both rate-limit headers, a limit that parses to a
\* non-zero number and a remaining count that parses.
HeaderData(resp) ==
  /\ ~resp.failed
  /\ resp.Limit # ""
  /\ resp.Remaining # ""
  /\ scanInt(resp.Limit).ok
  /\ scanInt(resp.Limit).n # 0
  /\ scanInt(resp.Remaining).ok

DataCalls(a) == SelectSeq(ProbeCalls(a), LAMBDA c : HeaderData(c.resp))

FallbackFailedError ==
  <<"Access forbidden and fallback failed", "no quota information extracted from headers">>

\* C6: a candidate endpoint that answers 403, whatever its body, is the last
\* candidate called, and the header probe is run for the account.
C6_ForbiddenRunsProbe ==
  \A a \in Tasks : \A k \in 1..Len(QuotaCalls(a)) :
    Answered(QuotaCalls(a)[k], 403) =>
      /\ k = Len(QuotaCalls(a))
      /\ \/ task[a].pc = "probe"
         \/ Resolved(a) /\ Len(ProbeCalls(a)) = Len(modelsToCheck)

\* C7: a primary call that fails otherwise than by 401, 403 or 404, whatever
\* the text of its body, ends the endpoint loop: it is the last call, no
\* probe is run and the result is an error carrying the message of the call.
C7_OtherErrorStops ==
  \A a \in Tasks : \A k \in 1..Len(QuotaCalls(a)) :
    OtherFailure(QuotaCalls(a)[k]) =>
      /\ k = Len(QuotaCalls(a))
      /\ Resolved(a)
      /\ ProbeCalls(a) = <<>>
      /\ task[a].quota.Status = "error"
      /\ task[a].quota.Error = callQuotaEndpoint(QuotaCalls(a)[k].resp, "").err

\* C8, as claimed: after a 403 and a header probe without usable data for any
\* model the result has status "error", with a message naming the forbidden
\* cause and the failure of the fallback.
C8_FallbackFailureIsError ==
  \A a \in Tasks :
    (Resolved(a) /\ LastAnswered(a, 403) /\ ProbeCalls(a) # <<>> /\ DataCalls(a) = <<>>) =>
      /\ task[a].quota.Status = "error"
      /\ task[a].quota.Error = FallbackFailedError

\* C8, amended: after a 403 and no usable probe data the result has status
\* "inactive" and a non-empty error; when the probe was run the error is
\* "Access forbidden and fallback failed: " and the probe's failure message.
C8_FallbackFailureIsInactive ==
  \A a \in Tasks :
    (Resolved(a) /\ LastAnswered(a, 403) /\ DataCalls(a) = <<>>) =>
      /\ task[a].quota.Status = "inactive"
      /\ task[a].quota.Error # <<>>
      /\ task[a].quota.ModelQuotas = <<>>
      /\ ProbeCalls(a) # <<>> => task[a].quota.Error = FallbackFailedError

C8_Witness ==
  \E a \in Tasks :
    /\ Resolved(a)
    /\ LastAnswered(a, 403)
    /\ Len(ProbeCalls(a)) = Len(modelsToCheck)
    /\ DataCalls(a) = <<>>
    /\ task[a].quota.Error = FallbackFailedError

\* C9: the candidates are called in their fixed order with one token; a 404
\* from a candidate before the last is followed by the call of the next
\* candidate; three 404s give an error result with the message of the last
\* 404, and no header probe.
C9_NotFoundAdvances ==
  \A a \in Tasks :
    LET qc == QuotaCalls(a)
    IN  /\ Len(qc) <= Len(endpoints)
        /\ \A k \in 1..Len(qc) :
             /\ qc[k].target = endpoints[k]
             /\ qc[k].token = qc[1].token
             /\ (Answered(qc[k], 404) /\ k < Len(endpoints)) =>
                  \/ k < Len(qc)
                  \/ task[a].pc = "fetch" /\ task[a].ep = k + 1
        /\ (Len(qc) = Len(endpoints) /\ \A k \in 1..Len(qc) : Answered(qc[k], 404)) =>
             /\ Resolved(a)
             /\ task[a].quota.Status = "error"
             /\ task[a].quota.Error = <<"404", "endpoint not found">>
             /\ ProbeCalls(a) = <<>>

C9_Witness ==
  \E a \in Tasks :
    /\ Resolved(a)
    /\ Len(QuotaCalls(a)) = Len(endpoints)
    /\ \A k \in 1..Len(QuotaCalls(a)) : Answered(QuotaCalls(a)[k], 404)
    /\ task[a].quota.Status = "error"

\* C10: after a 403, a header probe that obtains data for at least one model
\* gives an active result with the quotas of exactly the models that gave
\* data and an empty error; the probe fails only when no model gave data.
C10_ProbeDataIsActive ==
  \A a \in Tasks :
    (Resolved(a) /\ LastAnswered(a, 403) /\ ProbeCalls(a) # <<>>) =>
      /\ DataCalls(a) # <<>> =>
           /\ task[a].quota.Status = "active"
           /\ task[a].quota.Error = <<>>
           /\ [i \in 1..Len(task[a].quota.ModelQuotas) |-> task[a].quota.ModelQuotas[i].Model]
                = [i \in 1..Len(DataCalls(a)) |-> DataCalls(a)[i].target]
      /\ task[a].quota.Status # "active" => DataCalls(a) = <<>>

C10_Witness ==
  \E a \in Tasks :
    /\ Resolved(a)
    /\ LastAnswered(a, 403)
    /\ Len(ProbeCalls(a)) = Len(modelsToCheck)
    /\ ProbeCalls(a)[1].resp.failed
    /\ HeaderData(ProbeCalls(a)[2].resp)
    /\ task[a].quota.Status = "active"
    /\ Len(task[a].quota.ModelQuotas) = 1

\* A generation answer with both rate-limit headers and a limit that parses
\* to a non-zero number.
HeadersAndLimit(resp) ==
  /\ ~resp.failed
  /\ resp.Limit # ""
  /\ resp.Remaining # ""
  /\ scanInt(resp.Limit).ok
  /\ scanInt(resp.Limit).n # 0

ModelsOf(modelQuotas) == [i \in 1..Len(modelQuotas) |-> modelQuotas[i].Model]

TargetsOf(log) == [i \in 1..Len(log) |-> log[i].target]

\* C11, as claimed: a header probe that has run has issued one generation
\* call for every model of the list, in list order, whatever calls failed or
\* lacked headers, and the model quotas of the result are the models whose
\* answers carried both headers with a limit that parses to a non-zero
\* number, in list order.
C11_ProbeEntriesByLimit ==
  \A a \in Tasks :
    (Resolved(a) /\ ProbeCalls(a) # <<>>) =>
      /\ TargetsOf(ProbeCalls(a)) = modelsToCheck
      /\ ModelsOf(task[a].quota.ModelQuotas) =
           TargetsOf(SelectSeq(ProbeCalls(a), LAMBDA c : HeadersAndLimit(c.resp)))

\* C11, amended: as above, but a model gives an entry only when its remaining
\* header parses as well; the entry carries remaining / limit * 100 and the
\* reset header.
C11_ProbeEntriesByHeaders ==
  \A a \in Tasks :
    (Resolved(a) /\ ProbeCalls(a) # <<>>) =>
      /\ TargetsOf(ProbeCalls(a)) = modelsToCheck
      /\ ModelsOf(task[a].quota.ModelQuotas) = TargetsOf(DataCalls(a))
      /\ \A i \in 1..Len(task[a].quota.ModelQuotas) :
           LET entry == task[a].quota.ModelQuotas[i]
               resp  == DataCalls(a)[i].resp
           IN  /\ entry.RemainingPercent =
                    Percent(scanInt(resp.Remaining).n, scanInt(resp.Limit).n)
               /\ entry.ResetTime = resp.Reset

C11_Witness ==
  \E a \in Tasks :
    /\ Resolved(a)
    /\ LastAnswered(a, 403)
    /\ Len(ProbeCalls(a)) = Len(modelsToCheck)
    /\ HeaderData(ProbeCalls(a)[1].resp)
    /\ HeaderData(ProbeCalls(a)[2].resp)
    /\ \A i \in 3..Len(modelsToCheck) :
         ~ProbeCalls(a)[i].resp.failed /\ ProbeCalls(a)[i].resp.Limit = ""
    /\ task[a].quota.Status = "active"
    /\ Len(task[a].quota.ModelQuotas) = 2

\* The record of List() that account a was selected from.
RecordFor(a) ==
  allAuths[CHOOSE i \in 1..Len(allAuths) : allAuths[i].ID = antigravityAuths[a].authID]

\* The expiry marker of a record is a timestamp before the clock.
PastMarker(rec) ==
  LET marker == parseRFC3339(metaString(rec, "expired"))
  IN  marker.ok /\ marker.t < now

\* The entries of a report for the account a.
ReportedFor(a) ==
  {i \in 1..Len(response.Accounts) :
     response.Accounts[i].Email = antigravityAuths[a].email}

\* C12: an account whose expiry marker is in the past and that has no refresh
\* token never issues a call (no refresh, no primary call, no probe call) and
\* no store update, and its result is inactive with a non-empty error.
C12_ExpiredNoRefreshIsInactive ==
  \A a \in Tasks :
    (PastMarker(RecordFor(a)) /\ metaString(RecordFor(a), "refresh_token") = "") =>
      /\ calls[a] = <<>>
      /\ updates[a] = <<>>
      /\ task[a].pc \in {"start", "send", "done"}
      /\ Resolved(a) =>
           /\ task[a].quota.Status = "inactive"
           /\ task[a].quota.Error # <<>>
           /\ task[a].quota.ModelQuotas = <<>>
      /\ (hpc = "done" /\ response.code = 200) =>
           \A i \in ReportedFor(a) :
             /\ response.Accounts[i].Status = "inactive"
             /\ response.Accounts[i].Error # <<>>

C12_Witness ==
  \E a, b \in Tasks :
    /\ PastMarker(RecordFor(a))
    /\ metaString(RecordFor(a), "refresh_token") = ""
    /\ Resolved(a)
    /\ task[a].quota.Status = "inactive"
    /\ b # a
    /\ QuotaCalls(b) # <<>>

\* The record of the store that account a was selected from.
StoredFor(a) ==
  store[CHOOSE i \in 1..Len(store) : store[i].ID = antigravityAuths[a].authID]

\* The first call of the task was an OAuth exchange that gave a token.
Refreshed(a) ==
  /\ calls[a] # <<>>
  /\ calls[a][1].api = "oauth"
  /\ refreshAccessToken(calls[a][1].resp).err = NoError

\* After a successful refresh the task saves the token it got and sends it,
\* and not the stored one, with every primary call.
UsesRefreshedToken(a) ==
  /\ Refreshed(a) =>
       /\ PastMarker(RecordFor(a))
       /\ task[a].pc = "persist" \/ updates[a] # <<>>
       /\ \A k \in 1..Len(updates[a]) :
            updates[a][k].token = refreshAccessToken(calls[a][1].resp).token
  /\ updates[a] # <<>> =>
       /\ Len(updates[a]) = 1
       /\ \A k \in 1..Len(QuotaCalls(a)) :
            /\ QuotaCalls(a)[k].token = updates[a][1].token
            /\ QuotaCalls(a)[k].token # metaString(RecordFor(a), "access_token")

\* The stored record of a holds the token and the expiry marker of update u.
HoldsUpdate(a, u) ==
  /\ metaString(StoredFor(a), "access_token") = u.token
  /\ parseRFC3339(metaString(StoredFor(a), "expired")) =
       [ok |-> TRUE, t |-> u.at + u.expiresIn]

\* C13, as claimed: when the refresh of an expired account succeeds, every
\* primary call carries the refreshed token, and after the request the stored
\* record holds the new token and an expiry marker of refresh time plus
\* expiresIn seconds.
C13_RefreshedTokenStored ==
  \A a \in Tasks :
    /\ UsesRefreshedToken(a)
    /\ (hpc = "done" /\ updates[a] # <<>>) => HoldsUpdate(a, updates[a][1])

\* C13, amended: as above, but the stored record holds the new token and the
\* new marker only when updateAuthToken found and saved the record; otherwise
\* the record is as it was listed.
C13_RefreshedTokenStoredIfSaved ==
  \A a \in Tasks :
    /\ UsesRefreshedToken(a)
    /\ (hpc = "done" /\ updates[a] # <<>>) =>
         IF updates[a][1].outcome = "ok"
         THEN HoldsUpdate(a, updates[a][1])
         ELSE StoredFor(a) = RecordFor(a)

C13_Witness ==
  \E a \in Tasks :
    /\ hpc = "done"
    /\ response.code = 200
    /\ updates[a] # <<>>
    /\ updates[a][1].outcome = "ok"
    /\ metaString(RecordFor(a), "access_token") = "stored"
    /\ metaString(StoredFor(a), "access_token") = IssuedToken
    /\ metaString(StoredFor(a), "expired") = "15"
    /\ \A i \in ReportedFor(a) : response.Accounts[i].Status = "active"

\* The first call of the task was an OAuth exchange that failed: the
\* transport failed, the status was not 200 or the body did not decode.
RefreshFailed(a) ==
  /\ calls[a] # <<>>
  /\ calls[a][1].api = "oauth"
  /\ \/ calls[a][1].resp.failed
     \/ calls[a][1].resp.status # 200
     \/ ~calls[a][1].resp.decoded

\* C14: when the OAuth refresh of an expired account fails, the refresh is
\* the task's only call (no primary call, no probe call), the result is
\* inactive with a non-empty error that starts "Token refresh failed", and
\* the stored record is not updated.
C14_RefreshFailureIsInactive ==
  \A a \in Tasks :
    /\ RefreshFailed(a) =>
         /\ Resolved(a)
         /\ Len(calls[a]) = 1
         /\ task[a].quota.Status = "inactive"
         /\ task[a].quota.ModelQuotas = <<>>
         /\ Len(task[a].quota.Error) > 1
         /\ task[a].quota.Error[1] = "Token refresh failed"
         /\ updates[a] = <<>>
         /\ StoredFor(a) = RecordFor(a)
    /\ (hpc = "done" /\ response.code = 200) =>
         \A i \in ReportedFor(a) :
           (response.Accounts[i].Error # <<>>
              /\ response.Accounts[i].Error[1] = "Token refresh failed") =>
             /\ response.Accounts[i].Status = "inactive"
             /\ updates[a] = <<>>
             /\ StoredFor(a) = RecordFor(a)

C14_Witness ==
  \E a \in Tasks :
    /\ RefreshFailed(a)
    /\ calls[a][1].resp.status = 200
    /\ ~calls[a][1].resp.decoded
    /\ Resolved(a)
    /\ task[a].quota.Error = <<"Token refresh failed", "parse refresh response">>

\* The expiry marker of a record is absent, is no timestamp, or is a
\* timestamp that the clock has not passed.
NoPastMarker(rec) ==
  LET str    == metaString(rec, "expired")
      marker == parseRFC3339(str)
  IN  \/ str = ""
      \/ ~marker.ok
      \/ marker.t >= now

OAuthCalls(a) == SelectSeq(calls[a], LAMBDA c : c.api = "oauth")

\* C15: for an account whose expiry marker is absent, unparseable or in the
\* future, the token step does nothing: no refresh call is issued even when
\* the record has a refresh token, the store is not updated, and every
\* primary and probe call carries the stored access token.
C15_ValidTokenIsUsedAsIs ==
  \A a \in Tasks :
    NoPastMarker(RecordFor(a)) =>
      /\ OAuthCalls(a) = <<>>
      /\ updates[a] = <<>>
      /\ StoredFor(a) = RecordFor(a)
      /\ task[a].pc # "persist"
      /\ \A k \in 1..Len(calls[a]) :
           calls[a][k].token = metaString(RecordFor(a), "access_token")

C15_Witness ==
  \E a \in Tasks :
    /\ metaString(RecordFor(a), "expired") = "soon"
    /\ metaString(RecordFor(a), "refresh_token") # ""
    /\ Resolved(a)
    /\ QuotaCalls(a) # <<>>
    /\ ProbeCalls(a) # <<>>
    /\ task[a].quota.Status = "active"

AnswersOf(log) == [i \in 1..Len(log) |-> log[i].resp]

\* What fetchQuotaForAccount gives for the answers in the call log of a.
FetchResult(a) ==
  fetchQuotaForAccount(antigravityAuths[a].email, AnswersOf(QuotaCalls(a)),
                       AnswersOf(ProbeCalls(a)))

\* The task asked for its refreshed token to be saved and it was not: the
\* record was not found or the update failed.
PersistFailed(a) ==
  /\ updates[a] # <<>>
  /\ updates[a][1].outcome \in {"notfound", "updatefail"}

\* C16: when saving a refreshed token fails, the task goes on to the primary
\* fetch, every primary and probe call carries the refreshed token, and the
\* result is the one fetchQuotaForAccount gives for the answers to those
\* calls.
C16_PersistFailureIsIgnored ==
  \A a \in Tasks :
    PersistFailed(a) =>
      /\ task[a].pc \in {"fetch", "probe", "send", "done"}
      /\ \A k \in 1..Len(calls[a]) :
           calls[a][k].api \in {"quota", "generate"} =>
             calls[a][k].token = updates[a][1].token
      /\ Resolved(a) =>
           /\ QuotaCalls(a) # <<>>
           /\ task[a].quota = FetchResult(a)

C16_Witness ==
  \E a \in Tasks :
    /\ PersistFailed(a)
    /\ updates[a][1].outcome = "notfound"
    /\ Resolved(a)
    /\ Len(QuotaCalls(a)) = 2
    /\ QuotaCalls(a)[2].token = IssuedToken
    /\ task[a].quota.Status = "active"
    /\ StoredFor(a) = RecordFor(a)

\* What a task keeps to itself: its locals, its calls and what it sent.
LocalState(a) == << task[a], calls[a], updates[a], sends[a] >>

\* The result a task holds comes from its own account and the answers to its
\* own calls, and no other task keeps it from sending it: the send, the one
\* step of a task that waits on shared state, can be taken.
OwnResult ==
  \A b \in Tasks :
    Resolved(b) =>
      /\ task[b].quota = resolveAccount(antigravityAuths[b], calls[b])
      /\ ENABLED SendResult(b)

\* A step changes what at most one task keeps to itself.
OwnStep ==
  \A a, b \in Tasks :
    (hpc = "collect" /\ a # b /\ LocalState(a)' # LocalState(a)) =>
      LocalState(b)' = LocalState(b)

\* C17: one account's failure never affects another's result. In every
\* interleaving the result of a task is a function of its own account and of
\* the answers to its own calls, whatever the other tasks were answered; a
\* task that holds its result can send it, whatever state the other tasks
\* are in; and a step of one task leaves the others as they are.
C17_NoInterference == []OwnResult /\ [][OwnStep]_vars

C17_Witness ==
  \E a, b \in Tasks :
    /\ a # b
    /\ Resolved(a)
    /\ task[a].quota.Status = "error"
    /\ Resolved(b)
    /\ task[b].quota.Status = "active"
    /\ ProbeCalls(b) # <<>>

\* The tasks whose account was selected from the record with this ID.
OwnersOf(id) == {a \in Tasks : antigravityAuths[a].authID = id}

\* Task a takes the step that calls updateAuthToken.
Persists(a) == task[a].pc = "persist" /\ task'[a].pc # "persist"

\* A step changes a record of the store only if it is the updateAuthToken
\* call of the one task that was selected from that record; the call asks for
\* the record with the task's own ID, and no record is added or removed.
OwnRecordOnly ==
  /\ Len(store') = Len(store)
  /\ \A i \in 1..Len(store) :
       store'[i] # store[i] =>
         /\ store'[i].ID = store[i].ID
         /\ Cardinality(OwnersOf(store[i].ID)) = 1
         /\ \E a \in OwnersOf(store[i].ID) :
              /\ Persists(a)
              /\ \A b \in Tasks \ {a} : LocalState(b)' = LocalState(b)
  /\ \A a \in Tasks :
       (hpc = "collect" /\ updates'[a] # updates[a]) =>
         /\ Persists(a)
         /\ Len(updates'[a]) = 1
         /\ updates'[a][1].ID = antigravityAuths[a].authID
         /\ \A b \in Tasks \ {a} :
              \A k \in 1..Len(updates[b]) : updates[b][k].ID # updates'[a][1].ID

\* C18: in every interleaving each update of the credential store is made
\* by the task of the account that owns the record and changes only the
\* record with that task's own identifier; no two tasks update the same
\* record.
C18_DisjointUpdates == [][OwnRecordOnly]_vars

C18_Witness ==
  \E a, b \in Tasks :
    /\ a # b
    /\ updates[a] # <<>>
    /\ updates[b] # <<>>
    /\ metaString(StoredFor(a), "access_token") = IssuedToken
    /\ metaString(StoredFor(b), "access_token") = IssuedToken
    /\ task[a].pc = "fetch"
    /\ task[b].pc = "fetch"

ReportFields ==
  {"code", "TotalAccounts", "ActiveAccounts", "InactiveAccounts", "ErrorAccounts",
   "Accounts"}

\* C19: the handler answers 503 with an error body when the auth manager is
\* unavailable, and in every other case 200 with a report, whatever failed
\* for the accounts; a failure of an account shows only in the status and the
\* error of its entry, and an entry without failure is active without error.
C19_AnswerCodes ==
  /\ hpc # "done" => response = NoResponse
  /\ hpc = "done" =>
       IF managerNil
       THEN response = [code |-> 503, error |-> "auth manager unavailable"]
       ELSE /\ response.code = 200
            /\ DOMAIN response = ReportFields
            /\ response.TotalAccounts = Len(antigravityAuths)
            /\ \A i \in 1..Len(response.Accounts) :
                 LET entry == response.Accounts[i]
                 IN  /\ entry.Status \in StatusValues
                     /\ entry.Status = "active" <=> entry.Error = <<>>

C19_Witness ==
  /\ hpc = "done"
  /\ ~managerNil
  /\ response.code = 200
  /\ response.ErrorAccounts = 1
  /\ response.Accounts[1].Error[1] = "parse response"

\* A record carries the provider tag, in its Provider field or under the
\* "type" key of its metadata, and a non-empty access token.
Selectable(rec) ==
  /\ \/ rec.Provider = "antigravity"
     \/ "type" \in DOMAIN rec.Metadata /\ rec.Metadata["type"] = "antigravity"
  /\ "access_token" \in DOMAIN rec.Metadata
  /\ rec.Metadata["access_token"] # ""

IDsOf(recs) == [i \in 1..Len(recs) |-> recs[i].ID]

\* C20: the selected accounts are exactly the listed records that carry the
\* provider tag and a non-empty access token, in list order; selecting
\* issues no call and no update; the report counts the selected accounts
\* only and has no entry for a record that was not selected.
C20_SelectedIffTaggedWithToken ==
  (hpc # "idle" /\ ~managerNil) =>
    /\ [a \in Tasks |-> antigravityAuths[a].authID]
         = IDsOf(SelectSeq(allAuths, Selectable))
    /\ \A a \in Tasks :
         /\ antigravityAuths[a].accessToken = RecordFor(a).Metadata["access_token"]
         /\ antigravityAuths[a].accessToken # ""
         /\ task[a].pc = "start" => calls[a] = <<>> /\ updates[a] = <<>>
    /\ (\A a \in Tasks : task[a].pc = "start") => store = allAuths
    /\ hpc = "done" =>
         /\ response.TotalAccounts = Len(SelectSeq(allAuths, Selectable))
         /\ response.ActiveAccounts + response.InactiveAccounts
              + response.ErrorAccounts = Len(SelectSeq(allAuths, Selectable))
         /\ Len(response.Accounts) = Len(SelectSeq(allAuths, Selectable))
         /\ \A i \in 1..Len(allAuths) :
              ~Selectable(allAuths[i]) =>
                \A k \in 1..Len(response.Accounts) :
                  response.Accounts[k].Email # metaString(allAuths[i], "email")

C20_Witness ==
  /\ hpc = "done"
  /\ Len(allAuths) = 2
  /\ allAuths[1].Provider = "antigravity"
  /\ metaString(allAuths[1], "access_token") = ""
  /\ metaString(allAuths[1], "email") # ""
  /\ allAuths[2].Provider = ""
  /\ response.TotalAccounts = 1
  /\ response.Accounts[1].Email = metaString(allAuths[2], "email")

\* ---------------------------------------------------------------------- C21
\* C21: the expired flag of a selected account is true exactly when the
\* record's expiry marker is present, parses as a timestamp, and the clock
\* is strictly after that timestamp; an absent marker, a marker that does not
\* parse, and a marker equal to the clock give a flag that is false.
C21_ExpiredFlag ==
  \A a \in Tasks :
    LET str == metaString(RecordFor(a), "expired")
    IN  /\ antigravityAuths[a].expired <=>
             \E t \in 0..TimeHorizon : str = formatRFC3339(t) /\ now > t
        /\ str = "" => ~antigravityAuths[a].expired
        /\ (\A t \in 0..TimeHorizon : str # formatRFC3339(t)) =>
             ~antigravityAuths[a].expired

\* A record whose marker is the instant of the request is taken as not
\* expired, and its stored token is used although it has a refresh token.
C21_Witness ==
  \E a \in Tasks :
    /\ metaString(RecordFor(a), "expired") = formatRFC3339(now)
    /\ metaString(RecordFor(a), "refresh_token") # ""
    /\ ~antigravityAuths[a].expired
    /\ Resolved(a)
    /\ OAuthCalls(a) = <<>>
    /\ QuotaCalls(a) # <<>>

\* ---------------------------------------------------------------------- C22
\* A body in the array format (Format A) with at least one model.
YieldsArray(body) == body.shape = "array" /\ body.models # <<>>

\* A body in the map format (Format B) with at least one model.
YieldsMap(body) == body.shape = "map" /\ body.models # <<>>

\* The words the endpoint loop searches an error message for.
SearchedWords == {"unauthorized", "access token expired", "forbidden", "banned", "404"}

\* The task ended with the primary call k and reports the account as active.
BuiltFrom(a, k) ==
  /\ k = Len(QuotaCalls(a))
  /\ ProbeCalls(a) = <<>>
  /\ task[a].quota.Status = "active"
  /\ task[a].quota.Error = <<>>

\* C22: for a primary call answered with HTTP 200, the result is built from
\* Format A whenever the body decodes as Format A with at least one model,
\* from Format B only when Format A gives no model and Format B gives at
\* least one, and the call ends in the parse error exactly when neither
\* format gives a model (the parse error carries the body and then takes the
\* course of any failed call).
C22_FormatChoice ==
  \A a \in Tasks : \A k \in 1..Len(QuotaCalls(a)) :
    LET body == QuotaCalls(a)[k].resp.body
    IN  (Resolved(a) /\ Answered(QuotaCalls(a)[k], 200)) =>
          /\ YieldsArray(body) =>
               /\ BuiltFrom(a, k)
               /\ ModelsOf(task[a].quota.ModelQuotas) =
                    ModelsOf(SelectSeq(body.models, LAMBDA m : m.RpmLimit # 0))
          /\ (~YieldsArray(body) /\ YieldsMap(body)) =>
               /\ BuiltFrom(a, k)
               /\ ModelsOf(task[a].quota.ModelQuotas) =
                    ModelsOf(SelectSeq(body.models, LAMBDA m : m.HasFraction))
          /\ (~YieldsArray(body) /\ ~YieldsMap(body)) =>
               /\ ~BuiltFrom(a, k)
               /\ (\A w \in SearchedWords : ~Contains(body.raw, w)) =>
                    /\ k = Len(QuotaCalls(a))
                    /\ ProbeCalls(a) = <<>>
                    /\ task[a].quota.Status = "error"
                    /\ task[a].quota.Error = <<"parse response">> \o body.raw

\* A Format B body answered by the second candidate gives the result.
C22_Witness ==
  \E a \in Tasks :
    /\ Resolved(a)
    /\ Len(QuotaCalls(a)) = 2
    /\ Answered(QuotaCalls(a)[2], 200)
    /\ YieldsMap(QuotaCalls(a)[2].resp.body)
    /\ task[a].quota.Status = "active"
    /\ ModelsOf(task[a].quota.ModelQuotas) = <<"gemini-2.5-pro">>

\* ---------------------------------------------------------------------- C23
\* The percentage p, an exact ratio, equals remaining * 100 / limit.
IsPercentOf(p, remaining, limit) ==
  /\ p.den # 0
  /\ p.num * limit = remaining * 100 * p.den

InRange(p) ==
  IF p.den > 0
  THEN 0 <= p.num /\ p.num <= 100 * p.den
  ELSE p.den < 0 /\ 0 >= p.num /\ p.num >= 100 * p.den

\* C24: every Model Quota of every result, whether built from Format A, from
\* Format B or by the header probe, and every Model Quota of the report has a
\* remaining_percent between 0 and 100 inclusive, whatever limit, remaining
\* count and fraction upstream answered.
C24_PercentInRange ==
  /\ \A a \in Tasks : \A i \in 1..Len(task[a].quota.ModelQuotas) :
       InRange(task[a].quota.ModelQuotas[i].RemainingPercent)
  /\ \A n \in 1..Len(accounts) : \A i \in 1..Len(accounts[n].ModelQuotas) :
       InRange(accounts[n].ModelQuotas[i].RemainingPercent)

\* ---------------------------------------------------------------------- C25
\* C25: the header probe is entered, and generation calls are issued, for an
\* account only if a primary call of that account in the same request was
\* answered with HTTP 403; no other outcome of a primary call (200, 401, 404,
\* another status, a transport failure, a parse error) leads to the probe.
C25_ProbeOnlyAfterForbidden ==
  \A a \in Tasks :
    (task[a].pc = "probe" \/ ProbeCalls(a) # <<>>) =>
      \E k \in 1..Len(QuotaCalls(a)) : Answered(QuotaCalls(a)[k], 403)

\* ---------------------------------------------------------------------- C26
\* The results in the order the tasks sent them: those the collector has
\* received, then those waiting in the channel.
ArrivalOrder == accounts \o results

\* A step leaves the arrival order alone or is the send of one task, which
\* puts that task's result last; a report lists the accounts in that order.
KeepsArrivalOrder ==
  /\ \/ ArrivalOrder' = ArrivalOrder
     \/ \E a \in Tasks :
          /\ task[a].pc = "send"
          /\ task'[a].pc = "done"
          /\ ArrivalOrder' = Append(ArrivalOrder, task[a].quota)
  /\ (hpc = "collect" /\ hpc' = "done") => response'.Accounts = ArrivalOrder

\* C26: the accounts sequence of the report lists the results in the order
\* the tasks sent them to the channel, whatever the position of the accounts
\* in the credential list; any task that holds its result can be the next
\* to send, so every permutation of the selected accounts can be reported.
C26_ArrivalOrder ==
  /\ [](\A a \in Tasks : (Resolved(a) /\ ~closed) => ENABLED SendResult(a))
  /\ [][KeepsArrivalOrder]_vars

\* A report of two accounts that lists the second of the list first.
C26_Witness ==
  /\ hpc = "done"
  /\ response.code = 200
  /\ Len(antigravityAuths) = 2
  /\ Len(response.Accounts) = 2
  /\ response.Accounts[1].Email = antigravityAuths[2].email
  /\ response.Accounts[2].Email = antigravityAuths[1].email
  /\ response.Accounts[1].Status = "active"
  /\ response.Accounts[2].Status = "inactive"

\* ---------------------------------------------------------------------- C27
\* The "-thinking" identifiers of the lookup, each with its base model.
ThinkingVariants ==
  { <<"gemini-claude-sonnet-4-5-thinking", "gemini-claude-sonnet-4-5">>,
    <<"gemini-claude-opus-4-5-thinking", "gemini-claude-opus-4-5">> }

\* The identifiers the lookup has a label for.
KnownModels ==
  { "gemini-2.5-pro", "gemini-2.5-flash", "gemini-2.0-flash",
    "gemini-2.0-flash-lite", "gemini-2.0-flash-exp", "gemini-exp-1206",
    "gemini-claude-sonnet-4-5", "gemini-claude-opus-4-5",
    "imagen-3.0-generate-002" } \cup { p[1] : p \in ThinkingVariants }

\* Identifiers the lookup has no label for.
UnknownModels ==
  { "", "gemini-3-pro", "gemini-2.5-pro-thinking", "Gemini 2.5 Pro",
    "gemini-2.5-pro ", "claude-sonnet-4-5", "imagen-3.0-generate-001" }

\* C27: for every model identifier the display name the header probe emits
\* is the one getDisplayName returns; each "-thinking" identifier of the
\* lookup has the display name of its base model; an identifier the lookup
\* does not know is returned unchanged; every Model Quota of every result,
\* from a body or from the probe, carries getDisplayName of its model.
C27_SharedDisplayNames ==
  /\ \A m \in KnownModels \cup UnknownModels :
       probeDisplayName(m) = getDisplayName(m)
  /\ \A m \in KnownModels : getDisplayName(m) # m
  /\ \A p \in ThinkingVariants :
       /\ getDisplayName(p[1]) = getDisplayName(p[2])
       /\ probeDisplayName(p[1]) = probeDisplayName(p[2])
  /\ \A m \in UnknownModels : getDisplayName(m) = m /\ probeDisplayName(m) = m
  /\ \A a \in Tasks : \A i \in 1..Len(task[a].quota.ModelQuotas) :
       task[a].quota.ModelQuotas[i].DisplayName =
         getDisplayName(task[a].quota.ModelQuotas[i].Model)

\* Two accounts report the same model, one from a Format A body and one from
\* the header probe, under the same display name.
C27_Witness ==
  \E a \in Tasks : \E b \in Tasks :
    /\ Resolved(a) /\ Resolved(b)
    /\ LastAnswered(a, 200)
    /\ ProbeCalls(b) # <<>>
    /\ task[a].quota.ModelQuotas # <<>>
    /\ task[b].quota.ModelQuotas # <<>>
    /\ task[a].quota.ModelQuotas[1].Model = task[b].quota.ModelQuotas[1].Model
    /\ task[a].quota.ModelQuotas[1].DisplayName = "Gemini 2.5 Pro"
    /\ task[b].quota.ModelQuotas[1].DisplayName = "Gemini 2.5 Pro"

\* ---------------------------------------------------------------------- C28
\* The task of a is past its token step: it is about to issue, is issuing or
\* has issued its primary calls.
Fetching(a) == task[a].pc \in {"fetch", "probe", "send"} \/ QuotaCalls(a) # <<>>

\* C28, as claimed: for an account whose refresh succeeded, the store update
\* is complete before the first primary call is issued, so from then on the
\* stored record holds the new token and the new expiry marker, whatever the
\* outcome of the fetch.
C28_StoredBeforeFetch ==
  \A a \in Tasks :
    (Refreshed(a) /\ Fetching(a)) =>
      /\ Len(updates[a]) = 1
      /\ HoldsUpdate(a, updates[a][1])

\* C28, amended: the call of updateAuthToken has returned before the first
\* primary call is issued; when it found and saved the record, the stored
\* record holds the new token and the new expiry marker from then on,
\* whatever the outcome of the fetch; when it did not, the stored record is
\* as it was listed.
C28_UpdateCalledBeforeFetch ==
  \A a \in Tasks :
    (Refreshed(a) /\ Fetching(a)) =>
      /\ Len(updates[a]) = 1
      /\ updates[a][1].outcome = "ok" => HoldsUpdate(a, updates[a][1])
      /\ updates[a][1].outcome # "ok" => StoredFor(a) = RecordFor(a)

\* A refreshed account whose fetch ends in the re-login result: the record
\* holds the refreshed token all the same.
C28_Witness ==
  \E a \in Tasks :
    /\ Refreshed(a)
    /\ Resolved(a)
    /\ LastAnswered(a, 401)
    /\ task[a].quota.Status = "inactive"
    /\ updates[a][1].outcome = "ok"
    /\ HoldsUpdate(a, updates[a][1])
    /\ StoredFor(a) # RecordFor(a)

\* ---------------------------------------------------------------------- C29
\* The metadata keys updateAuthToken writes.
TokenKeys == {"access_token", "expires_in", "timestamp", "expired"}

\* The record rec is the record old but for the values of the token keys.
SameButToken(rec, old) ==
  /\ rec.ID = old.ID
  /\ rec.Provider = old.Provider
  /\ DOMAIN rec.Metadata \subseteq DOMAIN old.Metadata \cup TokenKeys
  /\ \A k \in DOMAIN old.Metadata \ TokenKeys :
       k \in DOMAIN rec.Metadata /\ rec.Metadata[k] = old.Metadata[k]

\* The tasks of the request that saved a refreshed token to the record id.
SaversOf(id) ==
  {a \in Tasks : /\ antigravityAuths[a].authID = id
                 /\ \E k \in 1..Len(updates[a]) : updates[a][k].outcome = "ok"}

\* C29: against the records as the request listed them, saving a refreshed
\* token changes only the access_token, expires_in, timestamp and expired
\* values of the record of the refreshed account: its refresh_token, email,
\* project_id, type, provider and identifier are as before, and every record
\* no task saved to is unchanged.
C29_PersistFrame ==
  hpc # "idle" =>
    /\ Len(store) = Len(allAuths)
    /\ \A i \in 1..Len(allAuths) :
         /\ SameButToken(store[i], allAuths[i])
         /\ SaversOf(allAuths[i].ID) = {} => store[i] = allAuths[i]
         /\ SaversOf(allAuths[i].ID) # {} =>
              \A k \in TokenKeys : k \in DOMAIN store[i].Metadata

\* Of two expired accounts one was refreshed and saved: its record has the
\* new token and its old refresh token, the record of the other is untouched.
C29_Witness ==
  \E a \in Tasks : \E b \in Tasks \ {a} :
    /\ hpc = "done"
    /\ SaversOf(antigravityAuths[a].authID) = {a}
    /\ metaString(StoredFor(a), "access_token") # metaString(RecordFor(a), "access_token")
    /\ metaString(StoredFor(a), "expired") # metaString(RecordFor(a), "expired")
    /\ metaString(StoredFor(a), "refresh_token") = "refresh"
    /\ metaString(StoredFor(a), "email") = antigravityAuths[a].email
    /\ PastMarker(RecordFor(b))
    /\ updates[b] = <<>>
    /\ StoredFor(b) = RecordFor(b)

\* ---------------------------------------------------------------------- C30
\* The save u of an earlier request gave the record a lifetime, and the
\* clock of the present request is not after the expiry it wrote.
StillValid(u) ==
  /\ u.expiresIn > 0
  /\ now <= u.at + u.expiresIn

\* The present request selects the account of the save u, takes it as not
\* expired, issues no refresh call and no store update for it, and sends the
\* saved access token with every call of its fetch.
SelectsSaved(u) ==
  \E a \in Tasks :
    /\ antigravityAuths[a].authID = u.ID
    /\ metaString(RecordFor(a), "expired") = formatRFC3339(u.at + u.expiresIn)
    /\ ~antigravityAuths[a].expired
    /\ antigravityAuths[a].accessToken = u.token
    /\ OAuthCalls(a) = <<>>
    /\ task[a].pc # "persist"
    /\ updates[a] = <<>>
    /\ StoredFor(a) = RecordFor(a)
    /\ \A k \in 1..Len(calls[a]) : calls[a][k].token = u.token

C31_TokenNeverEmptied ==
  hpc # "idle" =>
    /\ \A i \in 1..Len(allAuths) :
         metaString(allAuths[i], "access_token") # "" =>
           metaString(store[i], "access_token") # ""
    /\ \A u \in lastSaved : \E a \in Tasks : antigravityAuths[a].authID = u.ID

\* ---------------------------------------------------------------------- C32
\* After destroy the page has no quota container and no active interval.
DestroyLeavesNothing == destroy => (containers' = <<>> /\ timers' = {})

\* C32: whatever init, setupAutoRefresh and destroy calls are made, the
\* automatic init followed by a manual one included, the page has at most
\* one quota container and at most one active auto-refresh interval, which
\* is the one the module holds; after destroy it has neither.
C32_OneContainerOneTimer ==
  /\ [](/\ Len(containers) <= 1
        /\ Cardinality(timers) <= 1
        /\ timers = IF refreshTimer = 0 THEN {} ELSE {refreshTimer})
  /\ [][DestroyLeavesNothing]_vars

\* The module was initialized twice and destroyed after the second time,
\* while the request of the second init is still waiting.
C32_Witness ==
  /\ loaded
  /\ ~isInitialized
  /\ started = 2
  /\ \E f \in pending : f.n = 2
  /\ containers = <<>>
  /\ timers = {}


\* C33: the refresh button is disabled whenever at least one fetchQuota call
\* is in flight, whatever the order of manual refreshes, timer ticks and
\* responses, and it is enabled when no call is in flight.
C33_DisabledWhileFetching ==
  \A i \in 1..Len(containers) : containers[i].disabled <=> pending # {}


\* The fetchQuota call whose outcome the page shows, 0 for the loading notice.
Shown == IF containers = <<>> THEN 0 ELSE containers[1].content.fetch

\* No rendering is replaced by the outcome of a call that started earlier.
NewerStays == (containers # <<>> /\ containers' # <<>>) => Shown' >= Shown

\* C34: when fetchQuota calls overlap, the content shown once all of them
\* have completed is that of the call that started last, and the response of
\* an older call never overwrites the rendering of a newer one.
C34_LatestFetchShown ==
  /\ []((pending = {} /\ containers # <<>>) => Shown = started)
  /\ [][NewerStays]_vars


\* C35: after every successful fetchQuota, the first one after init
\* included, the content shows a "Last updated" time, and it is the instant
\* at which the call whose data is shown completed.
C35_LastUpdatedIsCompletion ==
  \A i \in 1..Len(containers) :
    containers[i].content.kind \in {"quota", "empty"} =>
      /\ containers[i].content.lastUpdated # 0
      /\ containers[i].content.lastUpdated = containers[i].content.at

====
